---------------------------- MODULE Spec2Model ----------------------------
(***************************************************************************)
(* State-machine model of the PVM engine of peanutbutterandjam             *)
(* (packages/pvm-rust): the step function of the interpreter, the host     *)
(* function dispatch with the accumulation context, and the two RAM        *)
(* backends (PvmRam and SimpleRam).                                        *)
(*                                                                         *)
(* Number representation.  The model checker computes with integers of     *)
(* 32 bits, so a u32 of the program is written in its two's complement     *)
(* reading: the integer s stands for the u32 that is congruent to s        *)
(* modulo 2^32 (-1 is 0xFFFF_FFFF, -4096 is 0xFFFF_F000).  A u64 is the    *)
(* pair <<hi, lo>> of its two u32 halves, each in that reading             *)
(* (<<0, 5>> is 5, <<-1, -1>> is 2^64 - 1, <<0, -65536>> is 2^32 - 2^16).  *)
(* Only values of small magnitude occur, so no model value ever comes      *)
(* near 2^31, where the reading would be ambiguous.                        *)
(***************************************************************************)
EXTENDS Integers, Sequences, FiniteSets, TLC

VARIABLES
    overflow_checks,   \* TRUE: the build traps on integer overflow; FALSE: it wraps
    aborted,           \* TRUE once a Rust runtime panic has unwound out of the engine
    state,             \* the PvmState behind the STATE mutex, its RAM included
    lastOp,            \* the last operation applied and what it returned
    calls              \* how many steps or RAM operations were applied

vars == <<overflow_checks, aborted, state, lastOp, calls>>

-----------------------------------------------------------------------------
(* Option<T> of the program: None is the empty tuple, Some(x) is <<x>>.    *)

None == <<>>

Some(x) == <<x>>

IsSome(o) == Len(o) = 1

Unwrap(o) == o[1]

SetMin(S) == CHOOSE x \in S : \A y \in S : x <= y

Zeros(n) == [i \in 1..n |-> 0]

-----------------------------------------------------------------------------
(* u32 arithmetic on the two's complement reading.                         *)

\* a < b as unsigned 32-bit numbers
U32Lt(a, b) == IF (a < 0) = (b < 0) THEN a < b ELSE a >= 0

U32Le(a, b) == a = b \/ U32Lt(a, b)

\* the mathematical sum of the two u32 values is 2^32 or more
U32AddOverflows(a, b) ==
    \/ a < 0 /\ b < 0
    \/ (a < 0) # (b < 0) /\ a + b >= 0

\* u32::wrapping_add, also what `a + b` yields in a build without overflow checks
U32WrapAdd(a, b) == a + b

\* u32::saturating_add
U32SatAdd(a, b) == IF U32AddOverflows(a, b) THEN -1 ELSE a + b

\* a.wrapping_sub(b)
U32WrapSub(a, b) ==
    LET d == (a % 65536) - (b % 65536)
        borrow == IF d < 0 THEN 1 ELSE 0
        high == ((a \div 65536) - (b \div 65536) - borrow) % 65536
    IN  (IF high >= 32768 THEN high - 65536 ELSE high) * 65536 + (d % 65536)

\* a subtraction that takes nothing away
U32Unspent(a, b) == a

\* u32::saturating_sub
U32SatSub(a, b) == IF U32Lt(a, b) THEN 0 ELSE a - b

-----------------------------------------------------------------------------
(* u64 arithmetic on pairs <<hi, lo>>.                                     *)

\* u64::from of a u32
U64(n) == <<0, n>>

\* a < b as unsigned 64-bit numbers
U64Lt(a, b) == IF a[1] = b[1] THEN U32Lt(a[2], b[2]) ELSE U32Lt(a[1], b[1])

\* u64::wrapping_add, also what `a + b` yields in a build without overflow checks
U64WrapAdd(a, b) ==
    <<a[1] + b[1] + (IF U32AddOverflows(a[2], b[2]) THEN 1 ELSE 0), a[2] + b[2]>>

\* the mathematical sum of the two u64 values is 2^64 or more
U64AddOverflows(a, b) ==
    \/ U32AddOverflows(a[1], b[1])
    \/ U32AddOverflows(a[2], b[2]) /\ a[1] + b[1] = -1

\* u64::wrapping_sub, also what `a - b` yields in a build without overflow checks
U64WrapSub(a, b) ==
    <<a[1] - b[1] - (IF U32Lt(a[2], b[2]) THEN 1 ELSE 0), a[2] - b[2]>>

\* u64::saturating_add
U64SatAdd(a, b) == IF U64AddOverflows(a, b) THEN <<-1, -1>> ELSE U64WrapAdd(a, b)

\* u64::saturating_sub
U64SatSub(a, b) == IF U64Lt(a, b) THEN <<0, 0>> ELSE U64WrapSub(a, b)

\* k * a for a small constant k, wrapping
RECURSIVE U64Times(_, _)
U64Times(k, a) == IF k = 0 THEN <<0, 0>> ELSE U64WrapAdd(a, U64Times(k - 1, a))

\* TRUE iff k * a does not fit a u64
RECURSIVE U64MulOverflows(_, _)
U64MulOverflows(k, a) ==
    /\ k > 0
    /\ \/ U64MulOverflows(k - 1, a)
       \/ U64AddOverflows(a, U64Times(k - 1, a))

-----------------------------------------------------------------------------
(* Paged memory: config.rs and the helpers shared by ram.rs, simple_ram.rs *)

PAGE_SIZE == 4096

\* 2^32 / PAGE_SIZE: the number of pages of the 32-bit address space
PagesInAddressSpace == 1024 * 1024

\* address / PAGE_SIZE on the u32 the address stands for
get_page_index(address) ==
    IF address >= 0 THEN address \div PAGE_SIZE
    ELSE PagesInAddressSpace + (address \div PAGE_SIZE)

\* page_index * PAGE_SIZE as a u32
PageBase(page_index) ==
    IF 2 * page_index < PagesInAddressSpace THEN page_index * PAGE_SIZE
    ELSE (page_index - PagesInAddressSpace) * PAGE_SIZE

\* page_access.get(&page_index).unwrap_or(&MemoryAccessType::None)
get_page_access(r, page_index) ==
    IF page_index \in DOMAIN r.page_access THEN r.page_access[page_index]
    ELSE "None"

\* The octet stored at an address; memory is zero where nothing was written.
\* r.bytes holds the non-zero octets only, so equal memories are equal values.
ByteAt(r, address) == IF address \in DOMAIN r.bytes THEN r.bytes[address] ELSE 0

ReadBytes(r, address, count) == [i \in 1..count |-> ByteAt(r, address + i - 1)]

\* copy_from_slice of `values` to address.. in the octet map
StoreBytes(bytes, address, values) ==
    LET range == {address + i - 1 : i \in 1..Len(values)}
        nonzero == {x \in range : values[x - address + 1] # 0}
    IN  [x \in (DOMAIN bytes \ range) \cup nonzero |->
            IF x \in range THEN values[x - address + 1] ELSE bytes[x]]

\* page_access.insert(page_index, access_type) for every page of a range
InsertAccess(page_access, pages, access_type) ==
    [p \in DOMAIN page_access \cup pages |->
        IF p \in pages THEN access_type ELSE page_access[p]]

\* PvmRam::new / SimpleRam::new
NewRam(kind) ==
    [kind |-> kind, page_access |-> <<>>, pages |-> {}, memory_len |-> 0,
     bytes |-> <<>>, current_heap_pointer |-> 0]

-----------------------------------------------------------------------------
(* PvmRam (ram.rs).  r.pages is the key set of the `pages` map.            *)

\* What an operation stopped by a runtime panic returns.
RamAbort(r) ==
    [abort |-> TRUE, success |-> FALSE, has_fault |-> FALSE, data |-> None,
     fault_address |-> 0, ram |-> r]

PvmRam_is_readable_with_fault(r, address, size) ==
    IF size = 0 THEN [abort |-> FALSE, success |-> TRUE, fault_address |-> 0]
    ELSE IF U32AddOverflows(address, size) /\ overflow_checks
    THEN [abort |-> TRUE, success |-> FALSE, fault_address |-> 0]
    ELSE LET end_address == U32WrapAdd(address, size)
             start_page == get_page_index(address)
             end_page == get_page_index(U32SatSub(end_address, 1))
             bad == {p \in start_page..end_page : get_page_access(r, p) = "None"}
         IN  IF bad = {} THEN [abort |-> FALSE, success |-> TRUE, fault_address |-> 0]
             ELSE [abort |-> FALSE, success |-> FALSE,
                   fault_address |-> PageBase(SetMin(bad))]

PvmRam_is_writable_with_fault(r, address, size) ==
    IF size = 0 THEN [abort |-> FALSE, success |-> TRUE, fault_address |-> 0]
    ELSE IF U32AddOverflows(address, size) /\ overflow_checks
    THEN [abort |-> TRUE, success |-> FALSE, fault_address |-> 0]
    ELSE LET end_address == U32WrapAdd(address, size)
             start_page == get_page_index(address)
             end_page == get_page_index(U32SatSub(end_address, 1))
             bad == {p \in start_page..end_page : get_page_access(r, p) # "Write"}
         IN  IF bad = {} THEN [abort |-> FALSE, success |-> TRUE, fault_address |-> 0]
             ELSE [abort |-> FALSE, success |-> FALSE,
                   fault_address |-> PageBase(SetMin(bad))]

\* The pages a range of `count` octets at `address` lies on (count > 0, no wrap).
PagesOfRange(address, count) ==
    get_page_index(address)..get_page_index(address + count - 1)

PvmRam_read_octets(r, address, count) ==
    LET check == PvmRam_is_readable_with_fault(r, address, count)
        \* `while current_addr < end_addr` runs no round once address + count wrapped
        wrapped == count # 0 /\ U32AddOverflows(address, count)
        missing == IF count = 0 \/ wrapped THEN {}
                   ELSE {p \in PagesOfRange(address, count) : p \notin r.pages}
    IN  IF check.abort THEN RamAbort(r)
        ELSE IF ~check.success
        THEN [abort |-> FALSE, data |-> None, fault_address |-> check.fault_address,
              ram |-> r]
        ELSE IF missing # {}
        THEN [abort |-> FALSE, data |-> None,
              fault_address |-> PageBase(SetMin(missing)), ram |-> r]
        ELSE [abort |-> FALSE,
              data |-> Some(IF wrapped THEN Zeros(count)
                            ELSE ReadBytes(r, address, count)),
              fault_address |-> 0, ram |-> r]

PvmRam_write_octets(r, address, values) ==
    LET size == Len(values)
        check == PvmRam_is_writable_with_fault(r, address, size)
        wrapped == size # 0 /\ U32AddOverflows(address, size)
    IN  IF check.abort THEN RamAbort(r)
        ELSE IF ~check.success
        THEN [abort |-> FALSE, has_fault |-> TRUE,
              fault_address |-> IF check.fault_address # 0
                                THEN check.fault_address ELSE -1,
              ram |-> r]
        ELSE IF size = 0 \/ wrapped
        THEN [abort |-> FALSE, has_fault |-> FALSE, fault_address |-> 0, ram |-> r]
        ELSE [abort |-> FALSE, has_fault |-> FALSE, fault_address |-> 0,
              ram |-> [r EXCEPT !.pages = @ \cup PagesOfRange(address, size),
                                !.bytes = StoreBytes(@, address, values)]]

\* Returns the RAM, or None where `address + length` traps.
PvmRam_init_page(r, address, length, access_type) ==
    IF length = 0 THEN Some(r)
    ELSE IF U32AddOverflows(address, length) /\ overflow_checks THEN None
    ELSE LET start_page == get_page_index(address)
             end_page == get_page_index(U32WrapAdd(address, length) - 1)
         IN  Some([r EXCEPT !.pages = @ \cup (start_page..end_page),
                            !.page_access =
                                InsertAccess(@, start_page..end_page, access_type)])

PvmRam_write_octets_during_initialization(r, address, values) ==
    IF Len(values) = 0 THEN Some(r)
    ELSE IF U32AddOverflows(address, Len(values))
    THEN (IF overflow_checks THEN None ELSE Some(r))
    ELSE Some([r EXCEPT !.pages = @ \cup PagesOfRange(address, Len(values)),
                        !.bytes = StoreBytes(@, address, values)])

-----------------------------------------------------------------------------
(* SimpleRam (simple_ram.rs).  r.memory_len is memory.len().               *)

\* The fault address, or 0 for "no fault".
SimpleRam_check_access(r, address, size, required) ==
    LET start_page == get_page_index(address)
        end_addr == U32SatSub(U32SatAdd(address, size), 1)
        end_page == get_page_index(end_addr)
        bad == {p \in start_page..end_page :
                   \/ required = "Read" /\ get_page_access(r, p) = "None"
                   \/ required = "Write" /\ get_page_access(r, p) # "Write"}
    IN  IF bad = {} THEN 0 ELSE PageBase(SetMin(bad))

SimpleRam_is_readable_with_fault(r, address, size) ==
    LET fault == SimpleRam_check_access(r, address, size, "Read")
    IN  [abort |-> FALSE, success |-> fault = 0, fault_address |-> fault]

\* The loop runs over the addresses address..end; their pages are checked in order.
SimpleRam_is_writable_with_fault(r, address, size) ==
    LET end == U32SatAdd(address, size)
        bad == IF ~U32Lt(address, end) THEN {}
               ELSE {p \in get_page_index(address)..get_page_index(end - 1) :
                        get_page_access(r, p) # "Write"}
    IN  IF bad = {} THEN [abort |-> FALSE, success |-> TRUE, fault_address |-> 0]
        ELSE [abort |-> FALSE, success |-> FALSE,
              fault_address |-> PageBase(SetMin(bad))]

\* Returns the RAM, or None where the rounding up to a page traps.  A required
\* size in the top page rounds up to 2^32, which wraps to 0: resize(0).
SimpleRam_ensure_memory_size(r, required_size) ==
    IF required_size >= 0 /\ r.memory_len >= required_size THEN Some(r)
    ELSE IF required_size < 0
    THEN (IF overflow_checks THEN None
          ELSE Some([r EXCEPT !.memory_len = 0, !.bytes = <<>>]))
    ELSE Some([r EXCEPT !.memory_len =
                            ((required_size \div PAGE_SIZE) + 1) * PAGE_SIZE])

\* memory[address as usize..end]: the slice traps when it starts behind its end
\* (the buffer is shorter than the address after a wrapped ensure_memory_size).
SimpleRam_read_octets(r, address, count) ==
    LET fault == SimpleRam_check_access(r, address, count, "Read")
        wrapped == U32AddOverflows(address, count)
        grown == SimpleRam_ensure_memory_size(r, U32WrapAdd(address, count))
    IN  IF count = 0
        THEN [abort |-> FALSE, data |-> Some(<<>>), fault_address |-> 0, ram |-> r]
        ELSE IF fault # 0
        THEN [abort |-> FALSE, data |-> None, fault_address |-> fault, ram |-> r]
        ELSE IF (wrapped /\ overflow_checks) \/ ~IsSome(grown) THEN RamAbort(r)
        ELSE IF address < 0 \/ address > Unwrap(grown).memory_len THEN RamAbort(r)
        ELSE LET g == Unwrap(grown)
                 end == IF address + count <= g.memory_len THEN address + count
                        ELSE g.memory_len
             IN  [abort |-> FALSE, data |-> Some(ReadBytes(g, address, end - address)),
                  fault_address |-> 0, ram |-> g]

SimpleRam_write_octets(r, address, values) ==
    LET size == Len(values)
        writable == SimpleRam_is_writable_with_fault(r, address, size)
        wrapped == U32AddOverflows(address, size)
        grown == SimpleRam_ensure_memory_size(r, U32WrapAdd(address, size))
    IN  IF size = 0
        THEN [abort |-> FALSE, has_fault |-> FALSE, fault_address |-> 0, ram |-> r]
        ELSE IF ~writable.success
        THEN [abort |-> FALSE, has_fault |-> TRUE,
              fault_address |-> IF writable.fault_address # 0
                                THEN writable.fault_address ELSE -1,
              ram |-> r]
        ELSE IF (wrapped /\ overflow_checks) \/ ~IsSome(grown) THEN RamAbort(r)
        ELSE LET g == Unwrap(grown)
                 fits == address >= 0 /\ address + size <= g.memory_len
                 top == U32WrapAdd(address, size)
             IN  [abort |-> FALSE, has_fault |-> FALSE, fault_address |-> 0,
                  ram |-> [g EXCEPT
                      !.bytes = IF fits THEN StoreBytes(@, address, values) ELSE @,
                      !.current_heap_pointer = IF U32Lt(@, top) THEN top ELSE @]]

SimpleRam_init_page(r, address, length, access_type) ==
    LET grown == SimpleRam_ensure_memory_size(r, U32WrapAdd(address, length))
    IN  IF length = 0 THEN Some(r)
        ELSE IF (U32AddOverflows(address, length) /\ overflow_checks) \/ ~IsSome(grown)
        THEN None
        ELSE LET start_page == get_page_index(address)
                 end_page == get_page_index(U32WrapAdd(address, length) - 1)
             IN  Some([Unwrap(grown) EXCEPT !.page_access =
                          InsertAccess(@, start_page..end_page, access_type)])

SimpleRam_write_octets_during_initialization(r, address, values) ==
    LET size == Len(values)
        grown == SimpleRam_ensure_memory_size(r, U32WrapAdd(address, size))
    IN  IF size = 0 THEN Some(r)
        ELSE IF (U32AddOverflows(address, size) /\ overflow_checks) \/ ~IsSome(grown)
        THEN None
        ELSE LET g == Unwrap(grown)
                 fits == address >= 0 /\ address + size <= g.memory_len
                 top == U32WrapAdd(address, size)
             IN  Some([g EXCEPT
                      !.bytes = IF fits THEN StoreBytes(@, address, values) ELSE @,
                      !.current_heap_pointer = IF U32Lt(@, top) THEN top ELSE @])

-----------------------------------------------------------------------------
(* RamEnum (state_wrapper.rs): dispatch on the backend.                    *)

read_octets(r, address, count) ==
    IF r.kind = "Pvm" THEN PvmRam_read_octets(r, address, count)
    ELSE SimpleRam_read_octets(r, address, count)

write_octets(r, address, values) ==
    IF r.kind = "Pvm" THEN PvmRam_write_octets(r, address, values)
    ELSE SimpleRam_write_octets(r, address, values)

init_page(r, address, length, access_type) ==
    IF r.kind = "Pvm" THEN PvmRam_init_page(r, address, length, access_type)
    ELSE SimpleRam_init_page(r, address, length, access_type)

write_octets_during_initialization(r, address, values) ==
    IF r.kind = "Pvm" THEN PvmRam_write_octets_during_initialization(r, address, values)
    ELSE SimpleRam_write_octets_during_initialization(r, address, values)

-----------------------------------------------------------------------------
(* Constants of config.rs and types.rs.                                    *)

DEFAULT_GAS_LIMIT == -1

ZONE_SIZE == 65536

HALT_ADDRESS == -65536

STACK_SEGMENT_END == -16908288

ARGS_SEGMENT_START == -16842752

CONTINUE == -1

RESULT_CODE_HALT == 0

RESULT_CODE_PANIC == 1

RESULT_CODE_FAULT == 2

RESULT_CODE_HOST == 3

RESULT_CODE_OOG == 4

OPCODE_TRAP == 0

OPCODE_FALLTHROUGH == 1

OPCODE_ECALLI == 10

OPCODE_JUMP == 40

OPCODE_LOAD_IMM_64 == 20

OPCODE_JUMP_IND == 50

OPCODE_LOAD_IMM == 51

OPCODE_LOAD_U8 == 52

OPCODE_STORE_U8 == 59

OPCODE_LOAD_IMM_JUMP == 80

OPCODE_BRANCH_EQ_IMM == 81

OPCODE_BRANCH_NE_IMM == 82

OPCODE_BRANCH_GT_S_IMM == 90

OPCODE_BRANCH_EQ == 170

OPCODE_BRANCH_GE_S == 175

OPCODE_LOAD_IMM_JUMP_IND == 180

\* The opcodes register_all_instructions gives a handler.
RegisteredOpcodes ==
    {0, 1, 10, 20} \cup (30..33) \cup {40} \cup (50..62) \cup (70..73) \cup (80..90)
        \cup (100..111) \cup (120..161) \cup (170..175) \cup {180} \cup (190..230)

\* The opcodes whose handlers are translated below.
ModelledOpcodes ==
    {OPCODE_TRAP, OPCODE_FALLTHROUGH, OPCODE_ECALLI, OPCODE_LOAD_IMM_64, OPCODE_JUMP,
     OPCODE_JUMP_IND, OPCODE_LOAD_IMM, OPCODE_LOAD_U8, OPCODE_STORE_U8, OPCODE_LOAD_IMM_JUMP,
     OPCODE_BRANCH_EQ_IMM, OPCODE_BRANCH_NE_IMM, OPCODE_LOAD_IMM_JUMP_IND}

is_termination_instruction(opcode) ==
    \/ opcode \in {OPCODE_TRAP, OPCODE_FALLTHROUGH, OPCODE_JUMP, OPCODE_JUMP_IND,
                   OPCODE_LOAD_IMM_JUMP, OPCODE_LOAD_IMM_JUMP_IND}
    \/ opcode \in OPCODE_BRANCH_EQ..OPCODE_BRANCH_GE_S
    \/ opcode \in OPCODE_BRANCH_EQ_IMM..OPCODE_BRANCH_GT_S_IMM

    \/ opcode \in 81..90

REG_NONE == <<-1, -1>>

REG_WHAT == <<-1, -2>>

REG_OOB == <<-1, -3>>

REG_WHO == <<-1, -4>>

REG_FULL == <<-1, -5>>

REG_CORE == <<-1, -6>>

REG_CASH == <<-1, -7>>

REG_LOW == <<-1, -8>>

REG_HUH == <<-1, -9>>

REG_OK == <<0, 0>>

-----------------------------------------------------------------------------
(* Instruction decoding (parser.rs, instructions/base.rs).  Code, bitmask  *)
(* and operands are sequences; the octet at offset i is element i + 1.     *)

\* PvmParser::skip, and calculate_skip_distance of instructions/base.rs
skip(instruction_index, bitmask) ==
    LET hits == {j \in 1..24 : \/ instruction_index + j >= Len(bitmask)
                               \/ bitmask[instruction_index + j + 1] = 1}
    IN  IF hits = {} THEN 24 ELSE SetMin(hits) - 1

\* (operand_byte & 0x0f).min(12)
get_register_index(operand_byte) ==
    IF operand_byte % 16 > 12 THEN 12 ELSE operand_byte % 16

\* ((operands[0] >> 4) & 0x0f).min(12), 0 without operands
get_register_b(operands) ==
    IF Len(operands) = 0 THEN 0
    ELSE IF operands[1] \div 16 > 12 THEN 12 ELSE operands[1] \div 16

\* n.clamp(0, 4)
Clamp04(n) == IF n < 0 THEN 0 ELSE IF n > 4 THEN 4 ELSE n

\* The `length` octets at operands[start..], little endian, sign-extended from
\* octet length - 1 to 64 bits; octets behind the end of the operands count as 0.
get_immediate_value(operands, start, length) ==
    LET B(k) == IF start + k + 1 <= Len(operands) THEN operands[start + k + 1] ELSE 0
        top == B(length - 1)
        low == (IF length > 1 THEN B(0) ELSE 0) + (IF length > 2 THEN B(1) * 256 ELSE 0)
                   + (IF length > 3 THEN B(2) * 65536 ELSE 0)
        scale == IF length = 1 THEN 1 ELSE IF length = 2 THEN 256
                 ELSE IF length = 3 THEN 65536 ELSE 16777216
    IN  IF length <= 0 \/ Len(operands) <= start THEN <<0, 0>>
        ELSE IF top >= 128 THEN <<-1, low + (top - 256) * scale>>
        ELSE <<0, low + top * scale>>

\* The same octets without the sign extension
get_immediate_value_unsigned(operands, start, length) ==
    LET B(k) == IF start + k + 1 <= Len(operands) THEN operands[start + k + 1] ELSE 0
        top == IF length > 3 THEN B(3) ELSE 0
    IN  IF length <= 0 \/ Len(operands) <= start THEN <<0, 0>>
        ELSE <<0, (IF length > 0 THEN B(0) ELSE 0) + (IF length > 1 THEN B(1) * 256 ELSE 0)
                      + (IF length > 2 THEN B(2) * 65536 ELSE 0)
                      + (IF top >= 128 THEN top - 256 ELSE top) * 16777216>>

\* The target of a one-offset instruction: current_pc + the signed offset
parse_one_offset(operands, fskip, current_pc) ==
    LET length_x == IF fskip > 4 THEN 4 ELSE fskip
    IN  IF length_x <= 0 THEN current_pc
        ELSE current_pc + get_immediate_value(operands, 0, length_x)[2]

\* TRUE where the code returns None (the target is accepted)
validate_branch_target(target_address, code, bitmask) ==
    /\ target_address >= 0 /\ target_address < Len(code)
    /\ target_address < Len(bitmask) /\ bitmask[target_address + 1] # 0
    /\ \/ target_address = 0
       \/ \E i \in 0..(target_address - 1) :
             /\ bitmask[i + 1] = 1
             /\ is_termination_instruction(code[i + 1])
             /\ i + 1 + skip(i, bitmask) = target_address


-----------------------------------------------------------------------------
(* Instruction handlers (instructions/*.rs).  A handler takes the          *)
(* InstructionContext c, extended by the result it returns (result_code,   *)
(* fault_address) and by `abort`, which is TRUE where the handler stops    *)
(* with a runtime panic instead of returning.                              *)

\* registers[index] = value; register i is element i + 1
SetReg(registers, index, value) == [registers EXCEPT ![index + 1] = value]

\* return InstructionResult::new(result_code, fault_address)
InstructionResult(c, result_code, fault_address) ==
    [c EXCEPT !.result_code = result_code, !.fault_address = fault_address]

\* operands[0] on an instruction without operand octets: index out of bounds
RuntimePanic(c) == [c EXCEPT !.abort = TRUE]

TrapInstruction(c) == InstructionResult(c, RESULT_CODE_PANIC, 0)

FallthroughInstruction(c) == InstructionResult(c, CONTINUE, 0)

EcalliInstruction(c) ==
    [c EXCEPT !.host_call_id = IF Len(c.operands) > 0 THEN c.operands[1] ELSE 0,
              !.result_code = RESULT_CODE_HOST]

JumpInstruction(c) ==
    LET target == parse_one_offset(c.operands, c.fskip, c.program_counter)
    IN  IF ~validate_branch_target(target, c.code, c.bitmask)
        THEN InstructionResult(c, RESULT_CODE_PANIC, 0)
        ELSE [c EXCEPT !.program_counter = target]

\* The dynamic jump to address a (the low 32 bits of register + immediate), as
\* JUMP_IND and LOAD_IMM_JUMP_IND both spell it out.
djump(c, a) ==
    IF a = HALT_ADDRESS THEN InstructionResult(c, RESULT_CODE_HALT, 0)
    ELSE IF a = 0 \/ ~U32Le(a, 2 * Len(c.jump_table)) \/ a % 2 # 0
    THEN InstructionResult(c, RESULT_CODE_PANIC, 0)
    ELSE LET target == c.jump_table[a \div 2]
         IN  IF ~validate_branch_target(target, c.code, c.bitmask)
             THEN InstructionResult(c, RESULT_CODE_PANIC, 0)
             ELSE [c EXCEPT !.program_counter = target]

JumpIndInstruction(c) ==
    IF Len(c.operands) = 0 THEN RuntimePanic(c)
    ELSE LET register_a == get_register_index(c.operands[1])
             immediate_x == get_immediate_value(c.operands, 1, Clamp04(c.fskip - 1))
         IN  djump(c, U32WrapAdd(c.registers[register_a + 1][2], immediate_x[2]))

\* the register takes up to eight operand octets, little endian, as a u64
LoadImm64Instruction(c) ==
    IF Len(c.operands) = 0 THEN RuntimePanic(c)
    ELSE LET register_a == get_register_index(c.operands[1])
             B(i) == IF i < Len(c.operands) - 1 THEN c.operands[i + 2] ELSE 0
             Word(k) == B(k) + B(k + 1) * 256 + B(k + 2) * 65536
                            + (IF B(k + 3) >= 128 THEN B(k + 3) - 256 ELSE B(k + 3))
                                  * 16777216
         IN  [c EXCEPT !.registers = SetReg(@, register_a, <<Word(4), Word(0)>>)]

LoadImmInstruction(c) ==
    IF Len(c.operands) = 0 THEN RuntimePanic(c)
    ELSE LET register_a == get_register_index(c.operands[1])
             immediate_x == get_immediate_value(c.operands, 1, Clamp04(c.fskip - 1))
         IN  [c EXCEPT !.registers = SetReg(@, register_a, immediate_x)]

LoadU8Instruction(c) ==
    IF Len(c.operands) = 0 THEN RuntimePanic(c)
    ELSE LET register_a == get_register_index(c.operands[1])
             address ==
                 get_immediate_value_unsigned(c.operands, 1, Clamp04(c.fskip - 1))[2]
             read_result == read_octets(c.ram, address, 1)
         IN  IF read_result.abort THEN RuntimePanic(c)
             ELSE IF read_result.fault_address # 0 \/ ~IsSome(read_result.data)
             THEN InstructionResult(c, RESULT_CODE_FAULT, read_result.fault_address)
             ELSE [c EXCEPT !.ram = read_result.ram,
                            !.registers = SetReg(@, register_a,
                                                 U64(Unwrap(read_result.data)[1]))]

\* store_reg_at_address(context, 1, 0xff)
StoreU8Instruction(c) ==
    IF Len(c.operands) = 0 THEN RuntimePanic(c)
    ELSE LET register_a == get_register_index(c.operands[1])
             address == get_immediate_value(c.operands, 1, Clamp04(c.fskip - 1))[2]
             value == c.registers[register_a + 1][2] % 256
             wr == write_octets(c.ram, address, <<value>>)
         IN  IF U32Lt(address, ZONE_SIZE) THEN InstructionResult(c, RESULT_CODE_PANIC, 0)
             ELSE IF wr.abort THEN RuntimePanic(c)
             ELSE IF wr.has_fault
             THEN InstructionResult(c, RESULT_CODE_FAULT, wr.fault_address)
             ELSE [c EXCEPT !.ram = wr.ram]

LoadImmJumpInstruction(c) ==
    IF Len(c.operands) = 0 THEN RuntimePanic(c)
    ELSE LET register_a == get_register_index(c.operands[1])
             length_x == Clamp04((c.operands[1] \div 16) % 8)
             immediate_x == get_immediate_value(c.operands, 1, length_x)
             length_y == Clamp04(c.fskip - length_x - 1)
             immediate_y == get_immediate_value(c.operands, 1 + length_x, length_y)
             target == c.program_counter + immediate_y[2]
         IN  IF ~validate_branch_target(target, c.code, c.bitmask)
             THEN InstructionResult(c, RESULT_CODE_PANIC, 0)
             ELSE [c EXCEPT !.registers = SetReg(@, register_a, immediate_x),
                            !.program_counter = target]

\* reg_A is written before the dynamic jump is checked
LoadImmJumpIndInstruction(c) ==
    LET byte(k) == IF Len(c.operands) >= k THEN c.operands[k] ELSE 0
        register_a == get_register_index(byte(1))
        register_b == get_register_b(c.operands)
        length_x == Clamp04(byte(2) % 8)
        immediate_x == get_immediate_value(c.operands, 2, length_x)
        length_y == Clamp04(c.fskip - length_x - 2)
        immediate_y == get_immediate_value(c.operands, 2 + length_x, length_y)
        register_b_value == c.registers[register_b + 1]
    IN  djump([c EXCEPT !.registers = SetReg(@, register_a, immediate_x)],
              U32WrapAdd(register_b_value[2], immediate_y[2]))

\* BRANCH_EQ_IMM (equal = TRUE) and BRANCH_NE_IMM (equal = FALSE)
BranchImmInstruction(c, equal) ==
    IF Len(c.operands) = 0 THEN RuntimePanic(c)
    ELSE LET register_a == get_register_index(c.operands[1])
             length_x == Clamp04((c.operands[1] \div 16) % 8)
             immediate_x == get_immediate_value(c.operands, 1, length_x)
             length_y == Clamp04(Len(c.operands) - length_x - 1)
             offset == get_immediate_value(c.operands, 1 + length_x, length_y)[2]
             target_address == c.program_counter + offset
             condition == (c.registers[register_a + 1] = immediate_x) = equal
         IN  IF ~condition THEN InstructionResult(c, CONTINUE, 0)
             ELSE IF ~validate_branch_target(target_address, c.code, c.bitmask)
             THEN InstructionResult(c, RESULT_CODE_PANIC, 0)
             ELSE [c EXCEPT !.program_counter = target_address]

\* handler.execute(&mut context) for the handler the registry holds for opcode
execute(opcode, c) ==
    CASE opcode = OPCODE_TRAP -> TrapInstruction(c)
      [] opcode = OPCODE_FALLTHROUGH -> FallthroughInstruction(c)
      [] opcode = OPCODE_ECALLI -> EcalliInstruction(c)
      [] opcode = OPCODE_LOAD_IMM_64 -> LoadImm64Instruction(c)
      [] opcode = OPCODE_JUMP -> JumpInstruction(c)
      [] opcode = OPCODE_JUMP_IND -> JumpIndInstruction(c)
      [] opcode = OPCODE_LOAD_IMM -> LoadImmInstruction(c)
      [] opcode = OPCODE_LOAD_U8 -> LoadU8Instruction(c)
      [] opcode = OPCODE_STORE_U8 -> StoreU8Instruction(c)
      [] opcode = OPCODE_LOAD_IMM_JUMP -> LoadImmJumpInstruction(c)
      [] opcode = OPCODE_BRANCH_EQ_IMM -> BranchImmInstruction(c, TRUE)
      [] opcode = OPCODE_BRANCH_NE_IMM -> BranchImmInstruction(c, FALSE)
      [] opcode = OPCODE_LOAD_IMM_JUMP_IND -> LoadImmJumpIndInstruction(c)
-----------------------------------------------------------------------------
(* Codec (codec/impl_.rs).  Octet strings are sequences of 0..255.         *)

\* The four octets of a u32, little endian
LeBytes4(n) ==
    <<n % 256, (n \div 256) % 256, (n \div 65536) % 256, (n \div 16777216) % 256>>

\* The u32 of the first four octets of b, little endian
FromLeBytes4(b) ==
    b[1] + b[2] * 256 + b[3] * 65536
        + (IF b[4] >= 128 THEN b[4] - 256 ELSE b[4]) * 16777216

encode_fixed_length(value, length) ==
    [i \in 1..(IF length <= 0 THEN 0 ELSE length) |->
        IF i <= 4 THEN LeBytes4(value[2])[i]
        ELSE IF i <= 8 THEN LeBytes4(value[1])[i - 4] ELSE 0]

\* For n below 2^14, all the lengths and counts of the model.
encode_natural(n) == IF n <= 127 THEN <<n>> ELSE <<128 + n \div 256, n % 256>>

\* Some([value, consumed]) with the value as a u64, or None.  The first octet
\* fixes the number l of octets that follow; its remaining bits are the high
\* bits of the value, above those l octets.
decode_natural(data) ==
    LET first == data[1]
        l == IF first < 128 THEN 0 ELSE IF first < 192 THEN 1
             ELSE IF first < 224 THEN 2 ELSE IF first < 240 THEN 3
             ELSE IF first < 248 THEN 4 ELSE IF first < 252 THEN 5
             ELSE IF first < 254 THEN 6 ELSE IF first = 254 THEN 7 ELSE 8
        prefix_base == CASE l = 0 -> 0 [] l = 1 -> 128 [] l = 2 -> 192
                         [] l = 3 -> 224 [] l = 4 -> 240 [] l = 5 -> 248
                         [] l = 6 -> 252 [] l = 7 -> 254 [] l = 8 -> 255
        octets == [i \in 1..8 |-> IF i <= l THEN data[i + 1]
                                  ELSE IF i = l + 1 THEN first - prefix_base ELSE 0]
    IN  IF Len(data) = 0 \/ Len(data) < 1 + l THEN None
        ELSE Some([value |-> <<FromLeBytes4(SubSeq(octets, 5, 8)),
                               FromLeBytes4(SubSeq(octets, 1, 4))>>,
                   consumed |-> 1 + l])

\* The timeslot of the accumulate arguments, or None: three naturals, each of
\* the last two starting before the end of the arguments.
decode_accumulate_args(args) ==
    LET Rest(n) == SubSeq(args, n + 1, Len(args))
        timeslot_result == decode_natural(args)
        offset1 == Unwrap(timeslot_result).consumed
        service_id_result == decode_natural(Rest(offset1))
        offset2 == offset1 + Unwrap(service_id_result).consumed
    IN  IF ~IsSome(timeslot_result) \/ offset1 >= Len(args) THEN None
        ELSE IF ~IsSome(service_id_result) \/ offset2 >= Len(args) THEN None
        ELSE IF ~IsSome(decode_natural(Rest(offset2))) THEN None
        ELSE Some(Unwrap(timeslot_result).value)

\* encode_variable_sequence of the 4-octet elements: the count, then every
\* element behind its own length
encode_request_timeslots(timeslots) ==
    LET RECURSIVE Elements(_)
        Elements(ts) ==
            IF Len(ts) = 0 THEN <<>>
            ELSE encode_natural(4) \o encode_fixed_length(U64(Head(ts)), 4)
                     \o Elements(Tail(ts))
    IN  encode_natural(Len(timeslots)) \o Elements(timeslots)

\* decode_variable_sequence with decode_fixed_length(data, 4) for the elements:
\* the count, then that many 4-octet timeslots; octets left over are ignored.
decode_request_timeslots(value) ==
    LET length_result == decode_natural(value)
        RECURSIVE Elements(_, _)
        Elements(data, n) ==
            IF n = 0 THEN Some(<<>>)
            ELSE IF Len(data) < 4 THEN None
            ELSE LET rest == Elements(SubSeq(data, 5, Len(data)), n - 1)
                 IN  IF IsSome(rest) THEN Some(<<FromLeBytes4(data)>> \o Unwrap(rest))
                     ELSE None
    IN  IF ~IsSome(length_result) THEN None
        ELSE Elements(SubSeq(value, Unwrap(length_result).consumed + 1, Len(value)),
                      Unwrap(length_result).value[2])

\* create_csh_key: the key of (service_id, combined).  blake2b is taken to be
\* injective, so the key is the pair itself.
create_storage_key(service_id, storage_key) ==
    <<service_id, <<255, 255, 255, 255>> \o storage_key>>

create_preimage_key(service_id, preimage_hash) ==
    <<service_id, <<254, 255, 255, 255>> \o preimage_hash>>

\* length.to_le_bytes()[..4]: the low half of the length only
create_request_key(service_id, request_hash, length) ==
    <<service_id, LeBytes4(length[2]) \o request_hash>>

\* raw_csh_keyvals is the sequence of <<key, value>> pairs
raw_get(keyvals, key) ==
    LET hits == {i \in 1..Len(keyvals) : keyvals[i][1] = key}
    IN  IF hits = {} THEN None ELSE Some(keyvals[SetMin(hits)][2])

raw_set(keyvals, key, value) ==
    LET hits == {i \in 1..Len(keyvals) : keyvals[i][1] = key}
    IN  IF hits = {} THEN Append(keyvals, <<key, value>>)
        ELSE [keyvals EXCEPT ![SetMin(hits)] = <<key, value>>]

raw_delete(keyvals, key) ==
    LET hits == {i \in 1..Len(keyvals) : keyvals[i][1] = key}
    IN  IF hits = {} THEN keyvals
        ELSE SubSeq(keyvals, 1, SetMin(hits) - 1)
                 \o SubSeq(keyvals, SetMin(hits) + 1, Len(keyvals))


-----------------------------------------------------------------------------
(* PvmState and the set-up entry points (state_wrapper.rs, ram.rs).        *)

\* PartialState::default()
DefaultPartialState ==
    [accounts |-> <<>>, stagingset |-> <<>>, authqueue |-> <<>>, manager |-> 0,
     assigners |-> <<>>, delegator |-> 0, registrar |-> 0, alwaysaccers |-> <<>>]

\* init_state: PvmState::default() around the chosen RAM backend
DefaultPvmState(kind) ==
    [ram |-> NewRam(kind), program_counter |-> 0, gas_left |-> DEFAULT_GAS_LIMIT,
     status |-> "Panic", exit_arg |-> 0, result_code |-> RESULT_CODE_PANIC,
     registers |-> [i \in 1..13 |-> <<0, 0>>], code |-> <<>>, bitmask |-> <<>>,
     jump_table |-> <<>>, has_accumulation_context |-> FALSE, yield_hash |-> None,
     host_call_id |-> 0, checkpoint_requested |-> FALSE,
     accumulation_num_cores |-> 0, accumulation_num_validators |-> 0,
     timeslot |-> None, accumulation_fetch_config |-> None,
     accumulation_service_id |-> None, accumulation_accounts |-> None,
     accumulation_implications_regular |-> None,
     accumulation_implications_exceptional |-> None,
     accumulation_pending_xfers |-> <<>>,
     accumulation_regular_state |-> DefaultPartialState,
     accumulation_nextfreeid |-> 0, accumulation_provisions |-> <<>>]

reset_program_state(s) ==
    [s EXCEPT !.program_counter = 0, !.gas_left = DEFAULT_GAS_LIMIT,
              !.status = "Ok", !.exit_arg = 0, !.result_code = RESULT_CODE_HALT,
              !.registers = [i \in 1..13 |-> <<0, 0>>], !.ram = NewRam(s.ram.kind),
              !.host_call_id = 0, !.yield_hash = None,
              !.checkpoint_requested = FALSE, !.accumulation_num_cores = 0,
              !.accumulation_num_validators = 0, !.timeslot = None,
              !.accumulation_fetch_config = None,
              !.accumulation_service_id = None, !.accumulation_accounts = None,
              !.accumulation_implications_regular = None,
              !.accumulation_implications_exceptional = None,
              !.accumulation_pending_xfers = <<>>,
              !.accumulation_regular_state = DefaultPartialState,
              !.accumulation_provisions = <<>>]

\* `program` is what parse_program makes of the blob: None where decode_blob
\* fails, else the decoded code, bitmask and jump table.  The parser appends 16
\* zero octets to the code and fills the bitmask up with ones to that length.
prepare_blob_impl(s, program) ==
    IF ~IsSome(program)
    THEN [s EXCEPT !.status = "Panic", !.result_code = RESULT_CODE_PANIC]
    ELSE LET decoded == Unwrap(program)
             ext_len == Len(decoded.code) + 16
         IN  reset_program_state(
                 [s EXCEPT !.code = decoded.code \o Zeros(16),
                           !.bitmask = [i \in 1..ext_len |->
                               IF i <= Len(decoded.bitmask) THEN decoded.bitmask[i]
                               ELSE 1],
                           !.jump_table = decoded.jump_table])

align_to_page(size) == ((size + PAGE_SIZE - 1) \div PAGE_SIZE) * PAGE_SIZE

align_to_zone(size) == ((size + ZONE_SIZE - 1) \div ZONE_SIZE) * ZONE_SIZE

PvmRam_initialize_memory_layout(r, argument_data, read_only_data, read_write_data, stack_size, heap_zero_padding_size) ==
    LET ro_len == Len(read_only_data)
        heap_size == Len(read_write_data)
        args_len == Len(argument_data)
        heap_start == 2 * ZONE_SIZE + align_to_zone(ro_len)
        heap_end == heap_start + align_to_page(heap_size)
        heap_zeros_end == heap_end + heap_zero_padding_size * PAGE_SIZE
        args_start == ARGS_SEGMENT_START
        args_end == args_start + align_to_page(args_len)
        args_zero_padding_end == args_end + align_to_page(args_len)
        stack_end == STACK_SEGMENT_END
        stack_start == stack_end - align_to_page(stack_size)
        ro_start == ZONE_SIZE
        ro_end == ro_start + align_to_page(ro_len)
        Written(x, address, values) ==
            Unwrap(PvmRam_write_octets_during_initialization(x, address, values))
        Paged(x, wanted, address, length, access_type) ==
            IF wanted THEN Unwrap(PvmRam_init_page(x, address, length, access_type))
            ELSE x
        written == Written(Written(Written(r, args_start, argument_data),
                                   ro_start, read_only_data),
                           heap_start, read_write_data)
        pointed == [written EXCEPT !.current_heap_pointer = heap_zeros_end]
        ro == Paged(pointed, ro_len > 0, ro_start, ro_end - ro_start, "Read")
        args == Paged(ro, args_len > 0, args_start,
                      args_zero_padding_end - args_start, "Read")
        stack == Paged(args, U32Lt(stack_start, stack_end), stack_start,
                       stack_end - stack_start, "Write")
        heap == Paged(stack, heap_size > 0, heap_start, heap_end - heap_start,
                      "Write")
    IN  Paged(heap, U32Lt(heap_end, heap_zeros_end), heap_end,
              heap_zeros_end - heap_end, "Write")

\* SimpleRam only stores the read-write data, through write_octets
initialize_memory_layout(r, argument_data, read_only_data, read_write_data, stack_size, heap_zero_padding_size) ==
    IF r.kind = "Pvm"
    THEN PvmRam_initialize_memory_layout(r, argument_data, read_only_data,
             read_write_data, stack_size, heap_zero_padding_size)
    ELSE IF Len(read_write_data) = 0 THEN r
    ELSE SimpleRam_write_octets(r, 2 * 65536, read_write_data).ram

\* accounts.entry(id).or_insert_with(..) over the entries: the first entry of
\* an id is the one the map keeps
AccountsMap(entries) ==
    [id \in {U64(entries[i].service_id) : i \in 1..Len(entries)} |->
        entries[SetMin({i \in 1..Len(entries) :
                           entries[i].service_id = id[2]})].account]

\* `params.program` is what decode_program_from_preimage and decode_blob make
\* of the preimage (None where either fails), `params.context` what
\* decode_implications_pair makes of the encoded context.
setup_accumulate_from_preimage(s, params) ==
    IF ~IsSome(params.program)
    THEN [s EXCEPT !.status = "Panic", !.result_code = RESULT_CODE_PANIC]
    ELSE LET decoded == Unwrap(params.program)
             ext_len == Len(decoded.code) + 16
             loaded ==
                 [s EXCEPT
                     !.code = decoded.code \o Zeros(16),
                     !.bitmask = [i \in 1..(ext_len + 25) |->
                         IF i <= Len(decoded.bitmask) THEN decoded.bitmask[i] ELSE 1],
                     !.jump_table = decoded.jump_table,
                     !.ram = initialize_memory_layout(NewRam(s.ram.kind),
                                 params.args, decoded.ro_data, decoded.rw_data,
                                 decoded.stack_size, decoded.heap_zero_padding_size),
                     !.program_counter = 5,
                     !.gas_left = params.gas_limit,
                     !.status = "Ok",
                     !.result_code = RESULT_CODE_HALT,
                     !.registers = [i \in 1..13 |->
                         CASE i = 1 -> U64(HALT_ADDRESS)
                           [] i = 2 -> U64(STACK_SEGMENT_END)
                           [] i = 8 -> U64(ARGS_SEGMENT_START)
                           [] i = 9 -> U64(Len(params.args))
                           [] OTHER -> <<0, 0>>],
                     !.exit_arg = 0,
                     !.host_call_id = 0,
                     !.has_accumulation_context = TRUE,
                     !.accumulation_num_cores = params.num_cores,
                     !.accumulation_num_validators = params.num_validators,
                     !.timeslot = decode_accumulate_args(params.args),
                     !.accumulation_fetch_config =
                         Some([preimage_expunge_period |->
                                   params.config_preimage_expunge_period])]
         IN  IF ~IsSome(params.context) THEN loaded
             ELSE LET regular == Unwrap(params.context).regular
                  IN  [loaded EXCEPT
                          !.accumulation_implications_regular = Some(regular),
                          !.accumulation_implications_exceptional =
                              Some(Unwrap(params.context).exceptional),
                          !.accumulation_service_id = Some(U64(regular.id)),
                          !.accumulation_accounts =
                              Some(AccountsMap(regular.state.accounts)),
                          !.accumulation_pending_xfers = <<>>,
                          !.accumulation_regular_state = regular.state,
                          !.accumulation_nextfreeid = regular.nextfreeid,
                          !.accumulation_provisions = regular.provisions]

\* The accounts of the map as entries in ascending order of `id as u32`
RECURSIVE SortedAccounts(_)
SortedAccounts(accounts) ==
    IF DOMAIN accounts = {} THEN <<>>
    ELSE LET least == CHOOSE id \in DOMAIN accounts :
                           \A other \in DOMAIN accounts : U32Le(id[2], other[2])
         IN  <<[service_id |-> least[2], account |-> accounts[least]]>>
                 \o SortedAccounts([id \in DOMAIN accounts \ {least} |-> accounts[id]])

\* the implications without the transfers recorded since set-up
implications_without_pending_xfers(s) ==
    IF ~IsSome(s.accumulation_implications_regular) \/ ~IsSome(s.accumulation_accounts)
    THEN None
    ELSE Some([Unwrap(s.accumulation_implications_regular) EXCEPT
                  !.nextfreeid = s.accumulation_nextfreeid,
                  !.state = [s.accumulation_regular_state EXCEPT
                                !.accounts =
                                    SortedAccounts(Unwrap(s.accumulation_accounts))],
                  !.provisions = s.accumulation_provisions,
                  !.yield_hash = s.yield_hash])

\* Some(the regular implications as they now stand), or None
build_current_regular_implications(s) ==
    IF ~IsSome(s.accumulation_implications_regular) \/ ~IsSome(s.accumulation_accounts)
    THEN None
    ELSE Some([Unwrap(s.accumulation_implications_regular) EXCEPT
                  !.nextfreeid = s.accumulation_nextfreeid,
                  !.state = [s.accumulation_regular_state EXCEPT
                                !.accounts =
                                    SortedAccounts(Unwrap(s.accumulation_accounts))],
                  !.xfers = @ \o s.accumulation_pending_xfers,
                  !.provisions = s.accumulation_provisions,
                  !.yield_hash = s.yield_hash])


-----------------------------------------------------------------------------
(* Host functions (host_functions/).  A host function takes the            *)
(* HostFunctionContext h that next_step_impl builds from the state,        *)
(* extended by the HostFunctionResult it returns (result_code) and by      *)
(* `abort`, and gives back the context as it leaves it.                    *)

C_BASE_DEPOSIT == 100

C_ITEM_DEPOSIT == 10

C_BYTE_DEPOSIT == 1

C_MEMO_SIZE == 128

MIN_PUBLIC_INDEX == 65536

DEFAULT_NUM_CORES == 341

C_AUTH_QUEUE_SIZE == 80

AUTH_ENTRY_SIZE == 32

MAX_SERVICE_ID == <<1, 0>>

HOST_RESULT_CONTINUE == 255

FUNC_GAS == 0

FUNC_WRITE == 4

FUNC_LOG == 100

FUNC_ASSIGN == 15

FUNC_CHECKPOINT == 17

FUNC_NEW == 18

FUNC_TRANSFER == 20

FUNC_EJECT == 21

FUNC_SOLICIT == 23

FUNC_FORGET == 24

FUNC_PROVIDE == 26

FUNC_READ == 3

Reg(h, i) == h.registers[i + 1]

\* registers[7] = value; HostFunctionResult::continue_execution()
HostContinue(h, value) == [h EXCEPT !.registers = SetReg(@, 7, value)]

\* HostFunctionResult::panic()
HostPanic(h) == [h EXCEPT !.result_code = RESULT_CODE_PANIC]

\* the context after context.ram.read_octets returned read_result
AfterRead(h, read_result) == [h EXCEPT !.ram = read_result.ram]

ReadFailed(read_result) ==
    read_result.fault_address # 0 \/ ~IsSome(read_result.data)

GasHostFunction(h) == HostContinue(h, U64(h.gas_remaining))

CheckpointHostFunction(h) ==
    HostContinue([h EXCEPT !.checkpoint_requested = IF IsSome(@) THEN Some(TRUE) ELSE @],
                 U64(h.gas_remaining))

\* the deposits alone, gratis not taken off
minbalance_without_gratis(items, octets, gratis) ==
    U64SatAdd(U64SatAdd(U64(C_BASE_DEPOSIT), U64Times(C_ITEM_DEPOSIT, items)),
              U64Times(C_BYTE_DEPOSIT, octets))

\* items and octets as u64
minbalance(items, octets, gratis) ==
    U64SatSub(U64SatAdd(U64SatAdd(U64(C_BASE_DEPOSIT),
                                  U64Times(C_ITEM_DEPOSIT, items)),
                        U64Times(C_BYTE_DEPOSIT, octets)),
              gratis)

\* the transfer with the balance written before it is checked against the minimum
transfer_debits_before_check(h) ==
    LET dest == Reg(h, 7)
        amount == Reg(h, 8)
        gas_limit == Reg(h, 9)
        memo_offset == Reg(h, 10)
        \* the call once context.ram.read_octets returned read_result
        Read(read_result) ==
            LET h1 == AfterRead(h, read_result)
                service_id == U64(Unwrap(h.service_id)[2])
                accounts == Unwrap(h.accounts)
                current_account == accounts[service_id]
                balance_after_transfer == U64WrapSub(current_account.balance, amount)
                transfer == [source |-> service_id[2], dest |-> dest[2], amount |-> amount,
                             memo |-> Unwrap(read_result.data), gas_limit |-> gas_limit]
            IN  IF read_result.abort THEN RuntimePanic(h)
                ELSE IF ReadFailed(read_result) THEN HostPanic(h1)
                ELSE IF Len(Unwrap(read_result.data)) # C_MEMO_SIZE THEN HostPanic(h1)
                ELSE IF ~IsSome(h.service_id) THEN HostContinue(h1, REG_HUH)
                ELSE IF ~IsSome(h.accounts) THEN HostContinue(h1, REG_WHO)
                ELSE IF ~(IsSome(h.service_account) \/ service_id \in DOMAIN accounts)
                THEN HostContinue(h1, REG_HUH)
                ELSE IF dest \notin DOMAIN accounts THEN HostContinue(h1, REG_WHO)
                ELSE IF U64Lt(gas_limit, accounts[dest].minmemogas)
                THEN HostContinue(h1, REG_LOW)
                ELSE IF U64Lt(current_account.balance, amount) THEN HostContinue(h1, REG_CASH)
                ELSE IF U64Lt(balance_after_transfer,
                              minbalance(U64(current_account.items), current_account.octets,
                                         current_account.gratis))
                THEN HostContinue(
                         [h1 EXCEPT !.accounts = Some([accounts EXCEPT
                                        ![service_id].balance = balance_after_transfer])],
                         REG_CASH)
                ELSE HostContinue(
                         [h1 EXCEPT !.accounts = Some([accounts EXCEPT
                                        ![service_id].balance = balance_after_transfer]),
                                    !.xfers = IF IsSome(@) THEN Some(Append(Unwrap(@), transfer))
                                              ELSE @,
                                    !.gas_remaining = U32SatSub(@, gas_limit[2])],
                         REG_OK)
    IN  Read(read_octets(h.ram, memo_offset[2], C_MEMO_SIZE))

TransferHostFunction(h) ==
    LET dest == Reg(h, 7)
        amount == Reg(h, 8)
        gas_limit == Reg(h, 9)
        memo_offset == Reg(h, 10)
        \* the call once context.ram.read_octets returned read_result
        Read(read_result) ==
            LET h1 == AfterRead(h, read_result)
                service_id == U64(Unwrap(h.service_id)[2])
                accounts == Unwrap(h.accounts)
                current_account == accounts[service_id]
                balance_after_transfer == U64WrapSub(current_account.balance, amount)
                transfer == [source |-> service_id[2], dest |-> dest[2], amount |-> amount,
                             memo |-> Unwrap(read_result.data), gas_limit |-> gas_limit]
            IN  IF read_result.abort THEN RuntimePanic(h)
                ELSE IF ReadFailed(read_result) THEN HostPanic(h1)
                ELSE IF Len(Unwrap(read_result.data)) # C_MEMO_SIZE THEN HostPanic(h1)
                ELSE IF ~IsSome(h.service_id) THEN HostContinue(h1, REG_HUH)
                ELSE IF ~IsSome(h.accounts) THEN HostContinue(h1, REG_WHO)
                ELSE IF ~(IsSome(h.service_account) \/ service_id \in DOMAIN accounts)
                THEN HostContinue(h1, REG_HUH)
                ELSE IF dest \notin DOMAIN accounts THEN HostContinue(h1, REG_WHO)
                ELSE IF U64Lt(gas_limit, accounts[dest].minmemogas)
                THEN HostContinue(h1, REG_LOW)
                ELSE IF U64Lt(current_account.balance, amount) THEN HostContinue(h1, REG_CASH)
                ELSE IF U64Lt(balance_after_transfer,
                              minbalance(U64(current_account.items), current_account.octets,
                                         current_account.gratis))
                THEN HostContinue(h1, REG_CASH)
                ELSE HostContinue(
                         [h1 EXCEPT !.accounts = Some([accounts EXCEPT
                                        ![service_id].balance = balance_after_transfer]),
                                    !.xfers = IF IsSome(@) THEN Some(Append(Unwrap(@), transfer))
                                              ELSE @,
                                    !.gas_remaining = U32SatSub(@, gas_limit[2])],
                         REG_OK)
    IN  Read(read_octets(h.ram, memo_offset[2], C_MEMO_SIZE))

parse_auth_queue(data) ==
    [i \in 1..C_AUTH_QUEUE_SIZE |->
        SubSeq(data, (i - 1) * AUTH_ENTRY_SIZE + 1, i * AUTH_ENTRY_SIZE)]

\* ASSIGN that does not ask whether the caller is the assigner of the core
assign_by_any_caller(h) ==
    LET core_index == Reg(h, 7)
        service_id_to_assign == Reg(h, 9)
        read_result == read_octets(h.ram, Reg(h, 8)[2], C_AUTH_QUEUE_SIZE * AUTH_ENTRY_SIZE)
        h1 == AfterRead(h, read_result)
        assigned ==
            [Unwrap(h.accumulation_state) EXCEPT
                !.authqueue[core_index[2] + 1] = parse_auth_queue(Unwrap(read_result.data)),
                !.assigners[core_index[2] + 1] = service_id_to_assign[2]]
    IN  IF read_result.abort \/ ~IsSome(h.service_id) \/ ~IsSome(h.accumulation_state)
        THEN RuntimePanic(h)
        ELSE IF ReadFailed(read_result) THEN HostPanic(HostContinue(h1, REG_OOB))
        ELSE IF ~U64Lt(core_index, U64(Unwrap(h.num_cores))) THEN HostContinue(h1, REG_CORE)
        ELSE IF ~U64Lt(service_id_to_assign, MAX_SERVICE_ID) THEN HostContinue(h1, REG_WHO)
        ELSE HostContinue([h1 EXCEPT !.accumulation_state = Some(assigned)], REG_OK)

AssignHostFunction(h) ==
    LET core_index == Reg(h, 7)
        auth_queue_offset == Reg(h, 8)
        service_id_to_assign == Reg(h, 9)
        num_cores_val == IF IsSome(h.num_cores) THEN Unwrap(h.num_cores)
                         ELSE DEFAULT_NUM_CORES
        \* the call once context.ram.read_octets returned read_result
        Read(read_result) ==
            LET h1 == AfterRead(h, read_result)
                core_idx == core_index[2]
                partial_state == Unwrap(h.accumulation_state)
                \* while state.assigners.len() <= core_idx { state.assigners.push(0) }
                padded == [partial_state EXCEPT !.assigners =
                              IF Len(@) <= core_idx THEN @ \o Zeros(core_idx + 1 - Len(@)) ELSE @]
                h2 == [h1 EXCEPT !.accumulation_state = Some(padded)]
                assigned ==
                    [padded EXCEPT
                        !.authqueue =
                            [i \in 1..(IF Len(@) <= core_idx THEN core_idx + 1 ELSE Len(@)) |->
                                IF i = core_idx + 1
                                THEN parse_auth_queue(Unwrap(read_result.data))
                                ELSE IF i <= Len(@) THEN @[i] ELSE <<>>],
                        !.assigners[core_idx + 1] = service_id_to_assign[2]]
            IN  IF read_result.abort THEN RuntimePanic(h)
                ELSE IF ReadFailed(read_result)
                THEN HostPanic(HostContinue(h1, REG_OOB))
                \* parse_auth_queue slices data[start..end]
                ELSE IF Len(Unwrap(read_result.data)) < C_AUTH_QUEUE_SIZE * AUTH_ENTRY_SIZE
                THEN RuntimePanic(h1)
                ELSE IF ~U64Lt(core_index, U64(num_cores_val)) THEN HostContinue(h1, REG_CORE)
                \* the two .expect(..) of the accumulation context
                ELSE IF ~IsSome(h.service_id) \/ ~IsSome(h.accumulation_state)
                THEN RuntimePanic(h1)
                ELSE IF Unwrap(h.service_id) # U64(padded.assigners[core_idx + 1])
                THEN HostContinue(h2, REG_HUH)
                ELSE IF ~U64Lt(service_id_to_assign, MAX_SERVICE_ID)
                THEN HostContinue(h2, REG_WHO)
                ELSE HostContinue([h1 EXCEPT !.accumulation_state = Some(assigned)], REG_OK)
    IN  Read(read_octets(h.ram, auth_queue_offset[2],
                         C_AUTH_QUEUE_SIZE * AUTH_ENTRY_SIZE))

CODE_HASH_LEN == 32

NEW_SERVICE_ITEMS == 2

OCTETS_BASE == 81

\* 2^32 - 2^8 - MIN_PUBLIC_INDEX, as a u32
NEXTFREEID_MODULUS == -65792

\* 2^64 modulo NEXTFREEID_MODULUS: what a subtraction that wrapped below zero
\* leaves of the 2^64 it borrowed
Two64ModModulus == 33685760

\* x % NEXTFREEID_MODULUS for x < 2^32
ModNextFreeId(x) == IF U32Lt(x, NEXTFREEID_MODULUS) THEN x ELSE x - NEXTFREEID_MODULUS

\* the candidate taken as it is, whether or not an account has it
check_service_id_without_probe(id, accounts) == id

\* ids are u32 halves here: every id that reaches the function is below 2^32
RECURSIVE check_service_id_v071(_, _)
check_service_id_v071(id, accounts) ==
    IF U64(id) \notin DOMAIN accounts THEN id
    ELSE check_service_id_v071(
             MIN_PUBLIC_INDEX + ModNextFreeId(id - MIN_PUBLIC_INDEX + 1), accounts)

\* None where `current_id - min_pub` traps; in a wrapping build the difference
\* is taken modulo 2^64 before the remainder
get_next_free_id(current_id, accounts) ==
    LET shifted == current_id - MIN_PUBLIC_INDEX + 42
        remainder ==
            IF ~U32Lt(current_id, MIN_PUBLIC_INDEX) \/ ~U32Lt(current_id, MIN_PUBLIC_INDEX - 42)
            THEN ModNextFreeId(shifted)
            ELSE Two64ModModulus + shifted
    IN  IF U32Lt(current_id, MIN_PUBLIC_INDEX) /\ overflow_checks THEN None
        ELSE Some(check_service_id_v071(MIN_PUBLIC_INDEX + remainder, accounts))

NewHostFunction(h) ==
    LET code_hash_offset == Reg(h, 7)
        expected_code_length == Reg(h, 8)
        min_acc_gas == Reg(h, 9)
        min_memo_gas == Reg(h, 10)
        gratis == Reg(h, 11)
        desired_id == Reg(h, 12)
        \* the call once context.ram.read_octets returned read_result
        Read(read_result) ==
            LET h1 == AfterRead(h, read_result)
                code_hash == Unwrap(read_result.data)
                service_id == Unwrap(h.service_id)
                accounts == Unwrap(h.accounts)
                is_manager == IsSome(h.manager_id) /\ Unwrap(h.manager_id) = service_id
                new_service_octets == U64WrapAdd(U64(OCTETS_BASE), expected_code_length)
                min_balance == minbalance(U64(NEW_SERVICE_ITEMS), new_service_octets, gratis)
                current_service == accounts[service_id]
                b == U64WrapSub(current_service.balance, min_balance)
                current_min == minbalance(U64(current_service.items), current_service.octets,
                                          current_service.gratis)
                is_registrar == IsSome(h.registrar_id) /\ Unwrap(h.registrar_id) = service_id
                use_reserved == /\ gratis = <<0, 0>> /\ is_registrar
                                /\ U64Lt(desired_id, U64(MIN_PUBLIC_INDEX))
                new_service_id == IF use_reserved THEN desired_id
                                  ELSE U64(Unwrap(h.nextfreeid))
                new_account ==
                    [codehash |-> code_hash, balance |-> min_balance,
                     minaccgas |-> min_acc_gas, minmemogas |-> min_memo_gas,
                     octets |-> new_service_octets, gratis |-> gratis,
                     items |-> NEW_SERVICE_ITEMS,
                     created |-> IF IsSome(h.timeslot) THEN Unwrap(h.timeslot)[2] ELSE 0,
                     lastacc |-> 0, parent |-> service_id[2],
                     raw_csh_keyvals |->
                         raw_set(<<>>,
                                 create_request_key(new_service_id[2], code_hash,
                                                    expected_code_length),
                                 encode_request_timeslots(<<>>))]
                debited == [accounts EXCEPT ![service_id].balance = b]
                inserted == [id \in DOMAIN debited \cup {new_service_id} |->
                                IF id = new_service_id THEN new_account ELSE debited[id]]
                next_id == get_next_free_id(new_service_id[2], inserted)
            IN  IF expected_code_length[1] # 0 THEN HostPanic(h)
                ELSE IF read_result.abort THEN RuntimePanic(h)
                ELSE IF ReadFailed(read_result) THEN HostPanic(h1)
                ELSE IF Len(code_hash) # CODE_HASH_LEN THEN HostPanic(h1)
                ELSE IF ~IsSome(h.service_id) \/ ~IsSome(h.accounts)
                THEN HostContinue(h1, REG_HUH)
                ELSE IF gratis # <<0, 0>> /\ ~is_manager THEN HostContinue(h1, REG_HUH)
                ELSE IF service_id \notin DOMAIN accounts THEN HostContinue(h1, REG_HUH)
                ELSE IF U64Lt(current_service.balance, min_balance)
                THEN HostContinue(h1, REG_CASH)
                ELSE IF U64Lt(b, current_min) THEN HostContinue(h1, REG_CASH)
                ELSE IF use_reserved /\ desired_id \in DOMAIN accounts
                THEN HostContinue(h1, REG_FULL)
                ELSE IF ~use_reserved /\ ~IsSome(h.nextfreeid) THEN HostContinue(h1, REG_HUH)
                ELSE IF ~use_reserved /\ ~IsSome(next_id) THEN RuntimePanic(h1)
                ELSE HostContinue(
                         [h1 EXCEPT !.accounts = Some(inserted),
                                    !.nextfreeid = IF use_reserved THEN @
                                                   ELSE Some(Unwrap(next_id))],
                         new_service_id)
    IN  Read(read_octets(h.ram, code_hash_offset[2], CODE_HASH_LEN))

HASH_LEN == 32

ExpungeCutoffPassed(h, y) ==
    LET timeslot == IF IsSome(h.timeslot) THEN Unwrap(h.timeslot) ELSE <<0, 0>>
        expunge_period == IF IsSome(h.expunge_period) THEN Unwrap(h.expunge_period)
                          ELSE <<0, 0>>
    IN  U64Lt(U64WrapAdd(U64(y), expunge_period), timeslot)

EjectHostFunction(h) ==
    LET service_id_to_eject == Reg(h, 7)
        hash_offset == Reg(h, 8)
        \* the call once context.ram.read_octets returned read_result
        Read(read_result) ==
            LET h1 == AfterRead(h, read_result)
                hash_bytes == Unwrap(read_result.data)
                current_service_id == Unwrap(h.service_id)
                accounts == Unwrap(h.accounts)
                target == accounts[service_id_to_eject]
                l == IF U64Lt(target.octets, U64(81)) THEN <<0, 0>>
                     ELSE U64WrapSub(target.octets, U64(81))
                request_value == raw_get(target.raw_csh_keyvals,
                                         create_request_key(service_id_to_eject[2], hash_bytes, l))
                timeslots == decode_request_timeslots(Unwrap(request_value))
                removed == [id \in DOMAIN accounts \ {service_id_to_eject} |-> accounts[id]]
            IN  IF read_result.abort THEN RuntimePanic(h)
                ELSE IF ReadFailed(read_result) THEN HostPanic(h1)
                ELSE IF Len(hash_bytes) # HASH_LEN THEN HostPanic(h1)
                ELSE IF ~IsSome(h.service_id) \/ ~IsSome(h.accounts)
                THEN HostContinue(h1, REG_WHO)
                ELSE IF service_id_to_eject = current_service_id THEN HostContinue(h1, REG_WHO)
                ELSE IF service_id_to_eject \notin DOMAIN accounts THEN HostContinue(h1, REG_WHO)
                ELSE IF target.codehash # encode_fixed_length(current_service_id, 32)
                THEN HostContinue(h1, REG_WHO)
                ELSE IF target.items # 2 THEN HostContinue(h1, REG_HUH)
                ELSE IF ~IsSome(request_value) THEN HostContinue(h1, REG_HUH)
                ELSE IF ~IsSome(timeslots) THEN HostContinue(h1, REG_HUH)
                ELSE IF Len(Unwrap(timeslots)) < 2 THEN HostContinue(h1, REG_HUH)
                ELSE IF ~ExpungeCutoffPassed(h, Unwrap(timeslots)[2])
                THEN HostContinue(h1, REG_HUH)
                ELSE IF current_service_id \notin DOMAIN removed
                THEN HostContinue([h1 EXCEPT !.accounts = Some(removed)], REG_WHO)
                \* current_service.balance += balance_to_transfer
                ELSE IF /\ overflow_checks
                        /\ U64AddOverflows(removed[current_service_id].balance, target.balance)
                THEN RuntimePanic(h1)
                ELSE HostContinue(
                         [h1 EXCEPT !.accounts = Some([removed EXCEPT
                             ![current_service_id].balance = U64WrapAdd(@, target.balance)])],
                         REG_OK)
    IN  Read(read_octets(h.ram, hash_offset[2], HASH_LEN))

\* None where `OCTETS_BASE + preimage_length` traps
remove_request_and_update_footprint(service_account, service_id, hash_data, preimage_length) ==
    LET octets_delta == U64WrapAdd(U64(OCTETS_BASE), preimage_length)
    IN  IF overflow_checks /\ U64AddOverflows(U64(OCTETS_BASE), preimage_length)
        THEN None
        ELSE Some([service_account EXCEPT
                 !.raw_csh_keyvals =
                     raw_delete(raw_delete(@, create_request_key(service_id, hash_data,
                                                                 preimage_length)),
                                create_preimage_key(service_id, hash_data)),
                 !.items = IF ~U32Lt(@, 2) THEN @ - 2 ELSE 0,
                 !.octets = IF ~U64Lt(@, octets_delta) THEN U64WrapSub(@, octets_delta)
                            ELSE <<0, 0>>])

ForgetHostFunction(h) ==
    LET hash_offset == Reg(h, 7)[2]
        preimage_length == Reg(h, 8)
        \* the call once context.ram.read_octets returned read_result
        Read(read_result) ==
            LET h1 == AfterRead(h, read_result)
                hash_data == Unwrap(read_result.data)
                hash_bytes == [i \in 1..32 |-> IF i <= Len(hash_data) THEN hash_data[i] ELSE 0]
                service_id == Unwrap(h.service_id)[2]
                accounts == Unwrap(h.accounts)
                service_account == accounts[U64(service_id)]
                request_key == create_request_key(service_id, hash_bytes, preimage_length)
                request_value == raw_get(service_account.raw_csh_keyvals, request_key)
                decoded == decode_request_timeslots(Unwrap(request_value))
                timeslots == Unwrap(decoded)
                timeslot == IF IsSome(h.timeslot) THEN Unwrap(h.timeslot) ELSE <<0, 0>>
                removed == remove_request_and_update_footprint(service_account, service_id,
                                                               hash_bytes, preimage_length)
                Requested(new_timeslots) ==
                    [service_account EXCEPT !.raw_csh_keyvals =
                        raw_set(@, request_key, encode_request_timeslots(new_timeslots))]
                Done(account) ==
                    HostContinue([h1 EXCEPT !.accounts =
                                     Some([accounts EXCEPT ![U64(service_id)] = account])],
                                 REG_OK)
            IN  IF read_result.abort THEN RuntimePanic(h)
                ELSE IF ReadFailed(read_result) THEN HostPanic(h1)
                ELSE IF ~IsSome(h.service_id) THEN HostContinue(h1, REG_HUH)
                ELSE IF ~IsSome(h.accounts) THEN HostContinue(h1, REG_HUH)
                ELSE IF U64(service_id) \notin DOMAIN accounts THEN HostContinue(h1, REG_HUH)
                ELSE IF ~IsSome(request_value) THEN HostContinue(h1, REG_HUH)
                ELSE IF ~IsSome(decoded) THEN HostContinue(h1, REG_HUH)
                ELSE IF Len(timeslots) = 0 \/
                        (Len(timeslots) = 2 /\ ExpungeCutoffPassed(h, timeslots[2]))
                THEN IF IsSome(removed) THEN Done(Unwrap(removed)) ELSE RuntimePanic(h1)
                ELSE IF Len(timeslots) = 1
                THEN Done(Requested(<<timeslots[1], timeslot[2]>>))
                ELSE IF Len(timeslots) = 3 /\ ExpungeCutoffPassed(h, timeslots[2])
                THEN Done(Requested(<<timeslots[3], timeslot[2]>>))
                ELSE HostContinue(h1, REG_HUH)
    IN  Read(read_octets(h.ram, hash_offset, HASH_LEN))

\* next_step_impl passes service_account: None, so solicit answers HUH once the
\* hash is read; the branch for Some(account) is never entered
SolicitHostFunction(h) ==
    LET hash_offset == Reg(h, 7)
        \* the call once context.ram.read_octets returned read_result
        Read(read_result) ==
            LET h1 == AfterRead(h, read_result)
            IN  IF read_result.abort THEN RuntimePanic(h)
                ELSE IF ReadFailed(read_result) THEN HostPanic(h1)
                ELSE IF Len(Unwrap(read_result.data)) # HASH_LEN THEN HostPanic(h1)
                ELSE HostContinue(h1, REG_HUH)
    IN  Read(read_octets(h.ram, hash_offset[2], HASH_LEN))

\* None where the sum traps
calculate_min_balance(items, octets, gratis) ==
    LET item_deposit == U64Times(C_ITEM_DEPOSIT, items)
        with_base == U64WrapAdd(U64(C_BASE_DEPOSIT), item_deposit)
        byte_deposit == U64Times(C_BYTE_DEPOSIT, octets)
        overflows == \/ U64MulOverflows(C_ITEM_DEPOSIT, items)
                     \/ U64AddOverflows(U64(C_BASE_DEPOSIT), item_deposit)
                     \/ U64MulOverflows(C_BYTE_DEPOSIT, octets)
                     \/ U64AddOverflows(with_base, byte_deposit)
    IN  IF overflow_checks /\ overflows THEN None
        ELSE Some(U64SatSub(U64WrapAdd(with_base, byte_deposit), gratis))

WriteHostFunction(h) ==
    LET service_id == Unwrap(h.service_id)
        accounts == Unwrap(h.accounts)
        service_account == accounts[service_id]
        key_offset == Reg(h, 7)
        key_length == Reg(h, 8)
        value_offset == Reg(h, 9)
        value_length == Reg(h, 10)
        \* the call once the key is read and looked up (prev)
        Keyed(h1, key, storage_key, prev) ==
            LET has_key == IsSome(prev)
                previous_length == IF has_key THEN U64(Len(Unwrap(prev))) ELSE REG_NONE
                Done(c, keyvals, new_items, new_octets) ==
                    HostContinue([c EXCEPT !.accounts = Some([accounts EXCEPT
                                      ![service_id].raw_csh_keyvals = keyvals,
                                      ![service_id].items = new_items[2],
                                      ![service_id].octets = new_octets])],
                                 previous_length)
                \* value_length == 0: delete
                deleted_items == U64WrapSub(U64(service_account.items),
                                            U64(IF has_key THEN 1 ELSE 0))
                deleted_octets == IF has_key THEN U64(34 + Len(key) + Len(Unwrap(prev)))
                                  ELSE <<0, 0>>
                octets_after_delete == U64SatSub(service_account.octets, deleted_octets)
                Deleted(min_after_delete) ==
                    IF overflow_checks /\ has_key /\ service_account.items = 0
                    THEN RuntimePanic(h1)
                    ELSE IF ~IsSome(min_after_delete) THEN RuntimePanic(h1)
                    ELSE IF U64Lt(service_account.balance, Unwrap(min_after_delete))
                    THEN HostContinue(h1, REG_FULL)
                    ELSE Done(h1, raw_delete(service_account.raw_csh_keyvals,
                                             storage_key),
                              deleted_items, octets_after_delete)
                \* value_length > 0: set
                Set(read_value) ==
                    LET h2 == AfterRead(h1, read_value)
                        value == Unwrap(read_value.data)
                        new_items == U64WrapAdd(U64(service_account.items),
                                                U64(IF has_key THEN 0 ELSE 1))
                        octets_delta == IF has_key THEN Len(value) - Len(Unwrap(prev))
                                        ELSE 34 + Len(key) + Len(value)
                        \* service_account.octets as i64 + octets_delta
                        Summed(octets_sum) ==
                            LET sum_overflows ==
                                    IF octets_delta < 0
                                    THEN service_account.octets[1] < 0
                                             /\ octets_sum[1] >= 0
                                    ELSE service_account.octets[1] >= 0
                                             /\ octets_sum[1] < 0
                                new_octets == IF octets_sum[1] < 0 THEN <<0, 0>>
                                              ELSE octets_sum
                                Checked(new_min) ==
                                    IF ~IsSome(new_min) THEN RuntimePanic(h2)
                                    ELSE IF U64Lt(service_account.balance,
                                                  Unwrap(new_min))
                                    THEN HostContinue(h2, REG_FULL)
                                    ELSE Done(h2,
                                              raw_set(service_account.raw_csh_keyvals,
                                                      storage_key, value),
                                              new_items, new_octets)
                            IN  IF overflow_checks /\ sum_overflows
                                THEN RuntimePanic(h2)
                                ELSE Checked(calculate_min_balance(
                                         new_items, new_octets, service_account.gratis))
                    IN  IF read_value.abort THEN RuntimePanic(h1)
                        ELSE IF ReadFailed(read_value) THEN HostPanic(h2)
                        ELSE Summed(IF octets_delta < 0
                                    THEN U64WrapSub(service_account.octets,
                                                    U64(-octets_delta))
                                    ELSE U64WrapAdd(service_account.octets,
                                                    U64(octets_delta)))
            IN  IF value_length = <<0, 0>>
                THEN Deleted(calculate_min_balance(deleted_items, octets_after_delete,
                                                   service_account.gratis))
                ELSE Set(read_octets(h1.ram, value_offset[2], value_length[2]))
        StorageKeyed(h1, key, storage_key) ==
            Keyed(h1, key, storage_key,
                  raw_get(service_account.raw_csh_keyvals, storage_key))
        Read(read_key) ==
            IF read_key.abort THEN RuntimePanic(h)
            ELSE IF ReadFailed(read_key) THEN HostPanic(AfterRead(h, read_key))
            ELSE StorageKeyed(AfterRead(h, read_key), Unwrap(read_key.data),
                     create_storage_key(service_id[2], Unwrap(read_key.data)))
    IN  IF ~IsSome(h.service_id) \/ ~IsSome(h.accounts) THEN HostPanic(h)
        ELSE IF service_id \notin DOMAIN accounts THEN HostPanic(h)
        ELSE Read(read_octets(h.ram, key_offset[2], key_length[2]))

\* crypto::blake2b256, taken to be injective on the preimages of up to 31
\* octets: the preimage, zero padded, and its length in the last octet
blake2b256(data) ==
    [i \in 1..32 |-> IF i <= Len(data) THEN data[i]
                     ELSE IF i = 32 THEN Len(data) ELSE 0]

\* the first entry of the service replaced where there is one, a new entry
\* pushed where there is none
add_or_replace_provision(provisions, service_id, blob) ==
    LET hits == {i \in 1..Len(provisions) : provisions[i].service_id = service_id}
    IN  IF hits # {} THEN [provisions EXCEPT ![SetMin(hits)].blob = blob]
        ELSE Append(provisions, [service_id |-> service_id, blob |-> blob])

ProvideHostFunction(h) ==
    LET target_service_id == Reg(h, 7)
        preimage_offset == Reg(h, 8)[2]
        preimage_length == Reg(h, 9)
        service_id == IF target_service_id = <<-1, -1>> THEN Unwrap(h.service_id)
                      ELSE target_service_id
        \* the call once context.ram.read_octets returned read_result
        Read(read_result) ==
            LET h1 == AfterRead(h, read_result)
                preimage_data == Unwrap(read_result.data)
                accounts == Unwrap(h.accounts)
                service_account == accounts[service_id]
                preimage_hash == blake2b256(preimage_data)
                request_value == raw_get(service_account.raw_csh_keyvals,
                                         create_request_key(service_id[2], preimage_hash,
                                                            preimage_length))
                provisions == Unwrap(h.provisions)
                service_id_u32 == service_id[2]
                hits == {i \in 1..Len(provisions) :
                            provisions[i].service_id = service_id_u32}
            IN  IF read_result.abort THEN RuntimePanic(h)
                ELSE IF ReadFailed(read_result) THEN HostPanic(h1)
                ELSE IF preimage_length[1] # 0 THEN HostPanic(h1)
                ELSE IF ~IsSome(h.accounts) THEN HostContinue(h1, REG_WHO)
                ELSE IF service_id \notin DOMAIN accounts THEN HostContinue(h1, REG_WHO)
                ELSE IF ~IsSome(request_value) THEN HostContinue(h1, REG_HUH)
                ELSE IF ~IsSome(h.provisions) THEN HostContinue(h1, REG_HUH)
                ELSE IF hits # {} /\ provisions[SetMin(hits)].blob = preimage_data
                THEN HostContinue(h1, REG_HUH)
                ELSE HostContinue(
                         [h1 EXCEPT !.provisions =
                             Some(add_or_replace_provision(provisions, service_id_u32,
                                                           preimage_data))],
                         REG_OK)
    IN  IF target_service_id = <<-1, -1>> /\ ~IsSome(h.service_id)
        THEN HostContinue(h, REG_HUH)
        ELSE Read(read_octets(h.ram, preimage_offset, preimage_length[2]))

ReadHostFunction(h) ==
    LET params_service_id == Unwrap(h.service_id)
        accounts == Unwrap(h.accounts)
        requested_service_id == IF Reg(h, 7) = REG_NONE THEN params_service_id
                                ELSE Reg(h, 7)
        key_offset == Reg(h, 8)
        key_length == Reg(h, 9)
        output_offset == Reg(h, 10)
        from_offset == Reg(h, 11)
        length == Reg(h, 12)
        \* (x as i64).min(bound).max(0), for a bound of 0 .. 2^31 - 1
        Clamped(x, bound) ==
            IF x[1] < 0 THEN 0
            ELSE IF x[1] > 0 \/ x[2] < 0 \/ x[2] > bound THEN bound
            ELSE x[2]
        \* the call once context.ram.read_octets returned read_key
        Keyed(read_key) ==
            LET h1 == AfterRead(h, read_key)
                key == Unwrap(read_key.data)
                value == raw_get(accounts[requested_service_id].raw_csh_keyvals,
                                 create_storage_key(requested_service_id[2], key))
                value_len == Len(Unwrap(value))
                f == Clamped(from_offset, value_len)
                remaining == value_len - f
                l == Clamped(length, remaining)
                data_to_write == SubSeq(Unwrap(value), f + 1, f + l)
                Written(write_result) ==
                    IF write_result.abort THEN RuntimePanic(h1)
                    ELSE IF write_result.has_fault
                    THEN HostPanic([h1 EXCEPT !.ram = write_result.ram])
                    ELSE [h1 EXCEPT !.ram = write_result.ram,
                                    !.registers = SetReg(@, 7, U64(value_len))]
            IN  IF read_key.abort THEN RuntimePanic(h)
                ELSE IF ReadFailed(read_key) THEN HostPanic(h1)
                ELSE IF requested_service_id \notin DOMAIN accounts
                THEN [h1 EXCEPT !.registers = SetReg(@, 7, REG_NONE)]
                ELSE IF ~IsSome(value)
                THEN [h1 EXCEPT !.registers = SetReg(@, 7, REG_NONE)]
                ELSE IF Len(data_to_write) # 0
                THEN Written(write_octets(h1.ram, output_offset[2], data_to_write))
                ELSE [h1 EXCEPT !.registers = SetReg(@, 7, U64(value_len))]
    IN  IF ~IsSome(h.service_id) \/ ~IsSome(h.accounts)
        THEN [h EXCEPT !.registers = SetReg(@, 7, REG_NONE)]
        ELSE Keyed(read_octets(h.ram, key_offset[2], key_length[2]))


-----------------------------------------------------------------------------
(* The step function (state_wrapper.rs next_step_impl) and the entry       *)
(* points of lib.rs that drive it.                                         *)

HOST_BASE_GAS == 10

\* ids of create_general_registry and create_accumulate_registry
FUNC_YIELD == 25

\* yield_.rs: the 32 octets at r7 become the yield hash
YieldHostFunction(h) ==
    LET hash_offset == Reg(h, 7)
        \* the call once context.ram.read_octets returned read_result
        Read(read_result) ==
            LET h1 == AfterRead(h, read_result)
            IN  IF read_result.abort THEN RuntimePanic(h)
                ELSE IF ReadFailed(read_result) THEN HostPanic(h1)
                ELSE IF Len(Unwrap(read_result.data)) # HASH_LEN THEN HostPanic(h1)
                ELSE IF ~IsSome(h1.yield_hash) THEN HostContinue(h1, REG_HUH)
                ELSE HostContinue([h1 EXCEPT !.yield_hash = Some(read_result.data)],
                                  REG_OK)
    IN  Read(read_octets(h.ram, hash_offset[2], HASH_LEN))

RegisteredHostFunctions == 0..26 \cup {FUNC_LOG}

\* the host functions translated here
ModelledHostFunctions ==
    {FUNC_GAS, FUNC_READ, FUNC_WRITE, FUNC_ASSIGN, FUNC_CHECKPOINT, FUNC_NEW, FUNC_TRANSFER,
     FUNC_EJECT, FUNC_SOLICIT, FUNC_FORGET, FUNC_PROVIDE, FUNC_YIELD}

\* handler.execute(&mut host_ctx) for the handler get_host_function finds
host_execute(host_call_id, h) ==
    CASE host_call_id = FUNC_GAS -> GasHostFunction(h)
      [] host_call_id = FUNC_READ -> ReadHostFunction(h)
      [] host_call_id = FUNC_WRITE -> WriteHostFunction(h)
      [] host_call_id = FUNC_ASSIGN -> AssignHostFunction(h)
      [] host_call_id = FUNC_CHECKPOINT -> CheckpointHostFunction(h)
      [] host_call_id = FUNC_NEW -> NewHostFunction(h)
      [] host_call_id = FUNC_TRANSFER -> TransferHostFunction(h)
      [] host_call_id = FUNC_EJECT -> EjectHostFunction(h)
      [] host_call_id = FUNC_SOLICIT -> SolicitHostFunction(h)
      [] host_call_id = FUNC_FORGET -> ForgetHostFunction(h)
      [] host_call_id = FUNC_PROVIDE -> ProvideHostFunction(h)
      [] host_call_id = FUNC_YIELD -> YieldHostFunction(h)

\* the HostFunctionContext next_step_impl builds over the state
HostFunctionContext(s) ==
    LET InContext(x) == IF s.has_accumulation_context THEN Some(x) ELSE None
    IN  [registers |-> s.registers, ram |-> s.ram, gas_remaining |-> s.gas_left,
         service_id |-> s.accumulation_service_id, service_account |-> None,
         accounts |-> s.accumulation_accounts,
         manager_id |-> InContext(U64(s.accumulation_regular_state.manager)),
         registrar_id |-> InContext(U64(s.accumulation_regular_state.registrar)),
         nextfreeid |-> InContext(s.accumulation_nextfreeid),
         timeslot |-> s.timeslot,
         expunge_period |->
             IF IsSome(s.accumulation_fetch_config)
             THEN Some(U64(Unwrap(s.accumulation_fetch_config).preimage_expunge_period))
             ELSE None,
         yield_hash |-> InContext(s.yield_hash),
         provisions |-> InContext(s.accumulation_provisions),
         xfers |-> InContext(s.accumulation_pending_xfers),
         accumulation_state |-> InContext(s.accumulation_regular_state),
         checkpoint_requested |-> InContext(s.checkpoint_requested),
         num_cores |-> IF s.accumulation_num_cores # 0
                       THEN Some(s.accumulation_num_cores) ELSE None,
         result_code |-> HOST_RESULT_CONTINUE, abort |-> FALSE]

\* the state once the borrows of the context are released
AfterHostFunction(s, h) ==
    LET Lent(o, old) == IF IsSome(o) THEN Unwrap(o) ELSE old
    IN  [s EXCEPT !.registers = h.registers, !.ram = h.ram,
                  !.gas_left = h.gas_remaining,
                  !.accumulation_accounts = h.accounts,
                  !.accumulation_nextfreeid = Lent(h.nextfreeid, @),
                  !.yield_hash = Lent(h.yield_hash, @),
                  !.accumulation_provisions = Lent(h.provisions, @),
                  !.accumulation_pending_xfers = Lent(h.xfers, @),
                  !.accumulation_regular_state = Lent(h.accumulation_state, @),
                  !.checkpoint_requested = Lent(h.checkpoint_requested, @)]

\* the match of a result code to a Status; the arm for RESULT_CODE_HOST is
\* never taken, that code being handled before
StatusOf(result_code) ==
    CASE result_code = RESULT_CODE_HALT -> "Halt"
      [] result_code = RESULT_CODE_PANIC -> "Panic"
      [] result_code = RESULT_CODE_FAULT -> "Fault"
      [] result_code = RESULT_CODE_OOG -> "Oog"
      [] OTHER -> "Panic"

\* [state, returned, abort]: the state the call leaves, the boolean it returns,
\* and abort = TRUE where it unwinds with a runtime panic instead of returning
next_step_impl(s) ==
    LET Returns(t, b) == [state |-> t, returned |-> b, abort |-> FALSE]
        Aborts == [state |-> s, returned |-> FALSE, abort |-> TRUE]
        cleared == [s EXCEPT !.host_call_id = 0]
        pc == s.program_counter
        fskip == skip(pc, s.bitmask)
        instruction_length == 1 + fskip
        opcode == s.code[pc + 1]
        operands_end == IF pc + instruction_length < Len(s.code)
                        THEN pc + instruction_length ELSE Len(s.code)
        context == [code |-> s.code, bitmask |-> s.bitmask, registers |-> s.registers,
                    program_counter |-> pc,
                    operands |-> SubSeq(s.code, pc + 2, operands_end),
                    fskip |-> fskip, jump_table |-> s.jump_table, ram |-> s.ram,
                    host_call_id |-> 0, result_code |-> CONTINUE,
                    fault_address |-> 0, abort |-> FALSE]
        Exits(t, result_code) ==
            Returns([t EXCEPT !.status = StatusOf(result_code),
                              !.result_code = result_code], FALSE)
        Advances(t) ==
            Returns([t EXCEPT !.program_counter = pc + instruction_length], TRUE)
        \* the state after the host function left the context as host_result
        HostCalled(charged, host_result) ==
            LET after_host == AfterHostFunction(charged, host_result)
                snapshot == build_current_regular_implications(after_host)
                checkpointed ==
                    IF after_host.checkpoint_requested
                    THEN [after_host EXCEPT
                             !.accumulation_implications_exceptional =
                                 IF IsSome(snapshot) THEN Some(Unwrap(snapshot)) ELSE @,
                             !.checkpoint_requested = FALSE]
                    ELSE after_host
            IN  IF host_result.abort THEN Aborts
                ELSE IF host_result.result_code = HOST_RESULT_CONTINUE
                THEN Advances(checkpointed)
                ELSE Exits(checkpointed, host_result.result_code)
        \* the step once handler.execute returned `result`
        Executed(result) ==
            LET executed == [cleared EXCEPT !.gas_left = U32SatSub(@, 1),
                                            !.registers = result.registers,
                                            !.ram = result.ram,
                                            !.host_call_id = result.host_call_id]
                id == result.host_call_id
                allowed == id <= 5 \/ id = 100 \/ (id >= 14 /\ id <= 26)
                charged == [executed EXCEPT !.gas_left = U32SatSub(@, HOST_BASE_GAS)]
            IN  IF result.abort THEN Aborts
                ELSE IF result.result_code = RESULT_CODE_HOST
                THEN IF s.has_accumulation_context /\ ~allowed
                     THEN IF U32Lt(executed.gas_left, HOST_BASE_GAS)
                          THEN Exits(executed, RESULT_CODE_OOG)
                          ELSE Advances([charged EXCEPT
                                            !.registers = SetReg(@, 7, REG_WHAT)])
                     ELSE IF id \in RegisteredHostFunctions
                     THEN IF U32Lt(executed.gas_left, HOST_BASE_GAS)
                          THEN Exits(executed, RESULT_CODE_OOG)
                          ELSE HostCalled(charged,
                                   host_execute(id, HostFunctionContext(charged)))
                     ELSE Advances([executed EXCEPT
                                       !.registers = SetReg(@, 7, REG_WHAT)])
                ELSE IF result.result_code # CONTINUE
                THEN Returns([executed EXCEPT
                                 !.status = StatusOf(result.result_code),
                                 !.result_code = result.result_code,
                                 !.exit_arg = result.fault_address], FALSE)
                ELSE IF result.program_counter # pc
                THEN Returns([executed EXCEPT
                                 !.program_counter = result.program_counter], TRUE)
                ELSE Advances(executed)
    IN  IF Len(s.code) = 0 THEN Returns([cleared EXCEPT !.status = "Halt"], FALSE)
        ELSE IF ~U32Lt(pc, Len(s.code)) THEN Exits(cleared, RESULT_CODE_HALT)
        ELSE IF s.gas_left = 0 THEN Exits(cleared, RESULT_CODE_OOG)
        ELSE IF opcode \notin RegisteredOpcodes THEN Exits(cleared, RESULT_CODE_PANIC)
        ELSE Executed(execute(opcode, context))

\* lib.rs n_steps: up to `steps` calls of next_step_impl, stopping at the first
\* that returns false; `made` counts the calls
RECURSIVE n_steps(_, _)
n_steps(s, steps) ==
    LET After(first) ==
            IF first.abort \/ ~first.returned
            THEN [state |-> first.state, returned |-> FALSE, abort |-> first.abort,
                  made |-> 1]
            ELSE [n_steps(first.state, steps - 1) EXCEPT !.made = @ + 1]
    IN  IF steps <= 0
        THEN [state |-> s, returned |-> TRUE, abort |-> FALSE, made |-> 0]
        ELSE After(next_step_impl(s))

-----------------------------------------------------------------------------
(* Codec of the implications pair (codec/impl_.rs).  A decoder returns     *)
(* None or Some([value, consumed]).  u64 fields are pairs <<hi, lo>>, u32  *)
(* fields their two's complement reading.                                  *)

\* concat_bytes: the sequences one after the other
RECURSIVE Concat(_)
Concat(seqs) == IF Len(seqs) = 0 THEN <<>> ELSE Head(seqs) \o Concat(Tail(seqs))

VALIDATOR_KEY_SIZE == 336

HASH_SIZE == 32

MEMO_SIZE == 128

\* data.get(n..): the octets from offset n on
Drop(data, n) == SubSeq(data, n + 1, Len(data))

\* u64::from_le_bytes of the eight octets at offset i
U64FromLe(data, i) ==
    <<FromLeBytes4(SubSeq(data, i + 5, i + 8)), FromLeBytes4(SubSeq(data, i + 1, i + 4))>>

decode_variable_length(data) ==
    LET Sized(length_result) ==
            IF ~IsSome(length_result) THEN None
            ELSE LET length == Unwrap(length_result).value
                     offset == Unwrap(length_result).consumed
                 IN  IF length[1] # 0 \/ length[2] < 0 \/ Len(data) < offset + length[2]
                     THEN None
                     ELSE Some([value |-> SubSeq(data, offset + 1, offset + length[2]),
                                consumed |-> offset + length[2]])
    IN  Sized(decode_natural(data))

\* the count, then every element behind its own length
encode_variable_sequence(elements) ==
    encode_natural(Len(elements))
        \o Concat([i \in 1..Len(elements) |->
                      encode_natural(Len(elements[i])) \o elements[i]])

\* the count, then that many elements as element_decoder reads them
decode_variable_sequence(data, element_decoder(_)) ==
    LET RECURSIVE Elements(_, _, _)
        \* n elements of `current`, `consumed` octets being read already
        Elements(current, n, consumed) ==
            LET Next1(element_result) ==
                    IF ~IsSome(element_result) THEN None
                    ELSE LET Rest(rest) ==
                                 IF ~IsSome(rest) THEN None
                                 ELSE Some([value |-> <<Unwrap(element_result).value>>
                                                          \o Unwrap(rest).value,
                                            consumed |-> Unwrap(rest).consumed])
                         IN  Rest(Elements(Drop(current, Unwrap(element_result).consumed),
                                           n - 1,
                                           consumed + Unwrap(element_result).consumed))
            IN  IF n <= 0 THEN Some([value |-> <<>>, consumed |-> consumed])
                ELSE Next1(element_decoder(current))
        Counted(length_result) ==
            IF ~IsSome(length_result) THEN None
            ELSE Elements(Drop(data, Unwrap(length_result).consumed),
                          Unwrap(length_result).value[2],
                          Unwrap(length_result).consumed)
    IN  Counted(decode_natural(data))

encode_complete_service_account(account) ==
    LET pairs == Concat([i \in 1..Len(account.raw_csh_keyvals) |->
                    encode_natural(Len(account.raw_csh_keyvals[i][1]))
                        \o account.raw_csh_keyvals[i][1]
                        \o encode_natural(Len(account.raw_csh_keyvals[i][2]))
                        \o account.raw_csh_keyvals[i][2]])
    IN  encode_natural(Len(pairs)) \o pairs
            \o encode_fixed_length(account.octets, 8) \o LeBytes4(account.items)
            \o encode_fixed_length(account.gratis, 8) \o account.codehash
            \o encode_fixed_length(account.balance, 8)
            \o encode_fixed_length(account.minaccgas, 8)
            \o encode_fixed_length(account.minmemogas, 8)
            \o LeBytes4(account.created) \o LeBytes4(account.lastacc)
            \o LeBytes4(account.parent)

decode_complete_service_account(data) ==
    LET RECURSIVE Keyvals(_)
        \* None, or Some(the pairs of keyval_data)
        Keyvals(keyval_data) ==
            LET Valued(key_result, value_result) ==
                    IF ~IsSome(value_result) THEN None
                    ELSE LET Rest(rest) ==
                                 IF ~IsSome(rest) THEN None
                                 ELSE Some(<<<<Unwrap(key_result).value,
                                               Unwrap(value_result).value>>>>
                                           \o Unwrap(rest))
                         IN  Rest(Keyvals(Drop(keyval_data,
                                               Unwrap(key_result).consumed
                                                   + Unwrap(value_result).consumed)))
                Keyed(key_result) ==
                    IF ~IsSome(key_result) THEN None
                    ELSE Valued(key_result,
                                decode_variable_length(
                                    Drop(keyval_data, Unwrap(key_result).consumed)))
            IN  IF Len(keyval_data) < 1 THEN Some(<<>>)
                ELSE Keyed(decode_variable_length(keyval_data))
        Fields(offset, raw_csh_keyvals) ==
            LET rest == Drop(data, offset)
            IN  IF ~IsSome(raw_csh_keyvals) \/ Len(rest) < 8 + 4 + 8 + 32 + 8 + 8 + 8 + 4 + 4 + 4
                THEN None
                ELSE Some([value |->
                               [codehash |-> SubSeq(rest, 21, 52),
                                balance |-> U64FromLe(rest, 52),
                                minaccgas |-> U64FromLe(rest, 60),
                                minmemogas |-> U64FromLe(rest, 68),
                                octets |-> U64FromLe(rest, 0),
                                gratis |-> U64FromLe(rest, 12),
                                items |-> FromLeBytes4(SubSeq(rest, 9, 12)),
                                created |-> FromLeBytes4(SubSeq(rest, 77, 80)),
                                lastacc |-> FromLeBytes4(SubSeq(rest, 81, 84)),
                                parent |-> FromLeBytes4(SubSeq(rest, 85, 88)),
                                raw_csh_keyvals |-> Unwrap(raw_csh_keyvals)],
                           consumed |-> offset + 88])
        Read(keyval_result) ==
            IF ~IsSome(keyval_result) THEN None
            ELSE Fields(Unwrap(keyval_result).consumed,
                        Keyvals(Unwrap(keyval_result).value))
    IN  Read(decode_variable_length(data))

\* the memo cut or zero padded to MEMO_SIZE octets
encode_deferred_transfer(transfer) ==
    LeBytes4(transfer.source) \o LeBytes4(transfer.dest)
        \o encode_fixed_length(transfer.amount, 8)
        \o [i \in 1..MEMO_SIZE |-> IF i <= Len(transfer.memo) THEN transfer.memo[i] ELSE 0]
        \o encode_fixed_length(transfer.gas_limit, 8)

decode_deferred_transfer(data) ==
    IF Len(data) < 4 + 4 + 8 + MEMO_SIZE + 8 THEN None
    ELSE Some([value |-> [source |-> FromLeBytes4(data),
                          dest |-> FromLeBytes4(SubSeq(data, 5, 8)),
                          amount |-> U64FromLe(data, 8),
                          memo |-> SubSeq(data, 17, 16 + MEMO_SIZE),
                          gas_limit |-> U64FromLe(data, 16 + MEMO_SIZE)],
               consumed |-> 4 + 4 + 8 + MEMO_SIZE + 8])

encode_provision_entry(entry) ==
    LeBytes4(entry.service_id) \o encode_natural(Len(entry.blob)) \o entry.blob

decode_provision_entry(data) ==
    LET Blob(blob_result) ==
            IF ~IsSome(blob_result) THEN None
            ELSE Some([value |-> [service_id |-> FromLeBytes4(data),
                                  blob |-> Unwrap(blob_result).value],
                       consumed |-> 4 + Unwrap(blob_result).consumed])
    IN  IF Len(data) < 4 THEN None ELSE Blob(decode_variable_length(Drop(data, 4)))

encode_partial_state(state_, num_cores, num_validators, auth_queue_size) ==
    LET account_pairs ==
            Concat([i \in 1..Len(state_.accounts) |->
                       LeBytes4(state_.accounts[i].service_id)
                           \o encode_complete_service_account(state_.accounts[i].account)])
        stagingset ==
            Concat([i \in 1..num_validators |->
                       IF i <= Len(state_.stagingset)
                              /\ Len(state_.stagingset[i]) = VALIDATOR_KEY_SIZE
                       THEN state_.stagingset[i] ELSE Zeros(VALIDATOR_KEY_SIZE)])
        Queue(c) ==
            Concat([a \in 1..auth_queue_size |->
                       IF c <= Len(state_.authqueue) /\ a <= Len(state_.authqueue[c])
                              /\ Len(state_.authqueue[c][a]) = HASH_SIZE
                       THEN state_.authqueue[c][a] ELSE Zeros(HASH_SIZE)])
        assigners ==
            Concat([i \in 1..num_cores |->
                       LeBytes4(IF i <= Len(state_.assigners) THEN state_.assigners[i]
                                ELSE 0)])
        \* e.gas as u32
        always_pairs ==
            Concat([i \in 1..Len(state_.alwaysaccers) |->
                       LeBytes4(state_.alwaysaccers[i].service_id)
                           \o LeBytes4(state_.alwaysaccers[i].gas[2])])
    IN  encode_natural(Len(account_pairs)) \o account_pairs \o stagingset
            \o Concat([c \in 1..num_cores |-> Queue(c)])
            \o LeBytes4(state_.manager) \o assigners \o LeBytes4(state_.delegator)
            \o LeBytes4(state_.registrar)
            \o encode_natural(Len(always_pairs)) \o always_pairs

decode_partial_state(data, num_cores, num_validators, auth_queue_size) ==
    LET RECURSIVE Accounts(_)
        \* None, or Some(the entries of accounts_data)
        Accounts(accounts_data) ==
            LET Entry(acc_result) ==
                    IF ~IsSome(acc_result) THEN None
                    ELSE LET Rest(rest) ==
                                 IF ~IsSome(rest) THEN None
                                 ELSE Some(<<[service_id |-> FromLeBytes4(accounts_data),
                                              account |-> Unwrap(acc_result).value]>>
                                           \o Unwrap(rest))
                         IN  Rest(Accounts(Drop(accounts_data,
                                                4 + Unwrap(acc_result).consumed)))
            IN  IF Len(accounts_data) < 4 THEN Some(<<>>)
                ELSE Entry(decode_complete_service_account(Drop(accounts_data, 4)))
        stagingset_size == num_validators * VALIDATOR_KEY_SIZE
        core_queue_size == auth_queue_size * HASH_SIZE
        authqueue_size == num_cores * core_queue_size
        words == 4 + num_cores * 4 + 4 + 4
        Always(accounts, offset, always_var) ==
            LET staged == Drop(data, offset)
                queued == Drop(staged, stagingset_size)
                rest == Drop(queued, authqueue_size)
            IN  IF ~IsSome(always_var) THEN None
                ELSE Some([value |->
                    [accounts |-> accounts,
                     stagingset |->
                         [i \in 1..num_validators |->
                             SubSeq(staged, (i - 1) * VALIDATOR_KEY_SIZE + 1,
                                    i * VALIDATOR_KEY_SIZE)],
                     authqueue |->
                         [c \in 1..num_cores |->
                             [a \in 1..auth_queue_size |->
                                 SubSeq(queued,
                                        (c - 1) * core_queue_size + (a - 1) * HASH_SIZE + 1,
                                        (c - 1) * core_queue_size + a * HASH_SIZE)]],
                     manager |-> FromLeBytes4(rest),
                     assigners |-> [i \in 1..num_cores |->
                                       FromLeBytes4(SubSeq(rest, 4 * i + 1, 4 * i + 4))],
                     delegator |-> FromLeBytes4(Drop(rest, 4 + num_cores * 4)),
                     registrar |-> FromLeBytes4(Drop(rest, 8 + num_cores * 4)),
                     alwaysaccers |->
                         [i \in 1..(Len(Unwrap(always_var).value) \div 8) |->
                             [service_id |->
                                  FromLeBytes4(Drop(Unwrap(always_var).value, 8 * i - 8)),
                              gas |->
                                  U64(FromLeBytes4(Drop(Unwrap(always_var).value,
                                                        8 * i - 4)))]]],
                    consumed |-> offset + stagingset_size + authqueue_size + words
                                     + Unwrap(always_var).consumed])
        Fixed(accounts, offset) ==
            IF ~IsSome(accounts) THEN None
            ELSE IF Len(data) - offset < stagingset_size THEN None
            ELSE IF Len(data) - offset - stagingset_size < authqueue_size THEN None
            ELSE IF Len(data) - offset - stagingset_size - authqueue_size < words THEN None
            ELSE Always(Unwrap(accounts), offset,
                        decode_variable_length(
                            Drop(data, offset + stagingset_size + authqueue_size + words)))
        Read(accounts_var) ==
            IF ~IsSome(accounts_var) THEN None
            ELSE Fixed(Accounts(Unwrap(accounts_var).value), Unwrap(accounts_var).consumed)
    IN  Read(decode_variable_length(data))

encode_implications(implications, num_cores, num_validators, auth_queue_size) ==
    LeBytes4(implications.id)
        \o encode_partial_state(implications.state, num_cores, num_validators,
                                auth_queue_size)
        \o LeBytes4(implications.nextfreeid)
        \o encode_variable_sequence([i \in 1..Len(implications.xfers) |->
                                        encode_deferred_transfer(implications.xfers[i])])
        \o (IF IsSome(implications.yield_hash)
            THEN <<1>> \o Unwrap(implications.yield_hash) ELSE <<0>>)
        \o encode_variable_sequence([i \in 1..Len(implications.provisions) |->
                                        encode_provision_entry(implications.provisions[i])])

decode_implications(data, num_cores, num_validators, auth_queue_size) ==
    LET Provided(state_result, xfers_result, yield_hash, offset, provisions_result) ==
            IF ~IsSome(provisions_result) THEN None
            ELSE Some([value |->
                           [id |-> FromLeBytes4(data),
                            state |-> Unwrap(state_result).value,
                            nextfreeid |->
                                FromLeBytes4(Drop(data, 4 + Unwrap(state_result).consumed)),
                            xfers |-> Unwrap(xfers_result).value,
                            yield_hash |-> yield_hash,
                            provisions |-> Unwrap(provisions_result).value],
                       consumed |-> offset + Unwrap(provisions_result).consumed])
        Yielded(state_result, xfers_result, offset) ==
            LET rest == Drop(data, offset)
            IN  IF Len(rest) = 0 THEN None
                ELSE IF rest[1] = 0
                THEN Provided(state_result, xfers_result, None, offset + 1,
                              decode_variable_sequence(Drop(data, offset + 1),
                                                       decode_provision_entry))
                ELSE IF rest[1] = 1 /\ Len(rest) >= 33
                THEN Provided(state_result, xfers_result, Some(SubSeq(rest, 2, 33)),
                              offset + 33,
                              decode_variable_sequence(Drop(data, offset + 33),
                                                       decode_provision_entry))
                ELSE None
        Transferred(state_result, offset, xfers_result) ==
            IF ~IsSome(xfers_result) THEN None
            ELSE Yielded(state_result, xfers_result,
                         offset + Unwrap(xfers_result).consumed)
        Stated(state_result) ==
            IF ~IsSome(state_result) THEN None
            ELSE IF Len(data) - 4 - Unwrap(state_result).consumed < 4 THEN None
            ELSE Transferred(state_result, 8 + Unwrap(state_result).consumed,
                             decode_variable_sequence(
                                 Drop(data, 8 + Unwrap(state_result).consumed),
                                 decode_deferred_transfer))
    IN  IF Len(data) < 4 THEN None
        ELSE Stated(decode_partial_state(Drop(data, 4), num_cores, num_validators,
                                         auth_queue_size))

encode_implications_pair(pair, num_cores, num_validators, auth_queue_size) ==
    encode_implications(pair.regular, num_cores, num_validators, auth_queue_size)
        \o encode_implications(pair.exceptional, num_cores, num_validators,
                               auth_queue_size)

decode_implications_pair(data, num_cores, num_validators, auth_queue_size) ==
    LET Both(regular_result, exceptional_result) ==
            IF ~IsSome(exceptional_result) THEN None
            ELSE Some([value |-> [regular |-> Unwrap(regular_result).value,
                                  exceptional |-> Unwrap(exceptional_result).value],
                       consumed |-> Unwrap(regular_result).consumed
                                        + Unwrap(exceptional_result).consumed])
        First(regular_result) ==
            IF ~IsSome(regular_result) THEN None
            ELSE Both(regular_result,
                      decode_implications(Drop(data, Unwrap(regular_result).consumed),
                                          num_cores, num_validators, auth_queue_size))
    IN  First(decode_implications(data, num_cores, num_validators, auth_queue_size))


\* state_wrapper.rs get_accumulation_context_encoded: Some(the encoding of the
\* regular implications as they now stand with the exceptional ones as kept),
\* or None
get_accumulation_context_encoded(s, num_cores, num_validators, auth_queue_size) ==
    LET regular == build_current_regular_implications(s)
        exceptional == s.accumulation_implications_exceptional
    IN  IF ~s.has_accumulation_context THEN None
        ELSE IF ~IsSome(regular) \/ ~IsSome(exceptional) THEN None
        ELSE Some(encode_implications_pair(
                      [regular |-> [Unwrap(regular) EXCEPT !.yield_hash = s.yield_hash],
                       exceptional |-> Unwrap(exceptional)],
                      num_cores, num_validators, auth_queue_size))

-----------------------------------------------------------------------------
(* What a run hands back (lib.rs): run_program and get_result.             *)

\* lib.rs run_program: what it returns once its loop has left the engine as s
RunProgramResultOutput(s) ==
    [gas_consumed |-> U32SatSub(DEFAULT_GAS_LIMIT, s.gas_left),
     result_code |-> s.result_code]

\* lib.rs get_result: registers 7 and 8 `as u32`, then read_octets
get_result(s) ==
    LET offset == s.registers[8][2]
        length == s.registers[9][2]
        Read(read_result) ==
            IF read_result.abort THEN [abort |-> TRUE, data |-> <<>>, ram |-> s.ram]
            ELSE IF read_result.fault_address # 0 \/ ~IsSome(read_result.data)
            THEN [abort |-> FALSE, data |-> <<>>, ram |-> read_result.ram]
            ELSE [abort |-> FALSE, data |-> Unwrap(read_result.data),
                  ram |-> read_result.ram]
    IN  IF length = 0 THEN [abort |-> FALSE, data |-> <<>>, ram |-> s.ram]
        ELSE Read(read_octets(s.ram, offset, length))

\* lib.rs set_gas_left: `gas as u32` of an i64 given as <<hi, lo>>
set_gas_left(s, gas) == [s EXCEPT !.gas_left = gas[2]]

-----------------------------------------------------------------------------
(* The inputs the engine is driven with: program blobs, accumulation       *)
(* arguments and contexts.  Programs are given as parse_program and        *)
(* decode_program_from_preimage return them, contexts as                   *)
(* decode_implications_pair returns them.                                  *)

MaxSteps == 12

MaxRamOps == 3

\* one instruction: its octets, and its bitmask (a one at the opcode)
Ecalli(host_call_id) == <<OPCODE_ECALLI, host_call_id>>

LoadImm(register, immediate) == <<OPCODE_LOAD_IMM, register>> \o immediate

\* the octets of ARGS_SEGMENT_START as a four-octet immediate
ArgsAddress == <<0, 0, 255, 254>>

\* the octets of STACK_SEGMENT_END - PAGE_SIZE, the page of a one-octet stack
StackAddress == <<0, 240, 253, 254>>

\* A decoded program whose code starts with JUMP +5, so that it runs the
\* instructions both from offset 0 and from the accumulation entry point 5.
Program(instructions) ==
    LET all == <<<<OPCODE_JUMP, 5, 0, 0, 0>>>> \o instructions
    IN  [code |-> Concat(all),
         bitmask |-> Concat([i \in 1..Len(all) |-> <<1>> \o Zeros(Len(all[i]) - 1)]),
         jump_table |-> <<>>, ro_data |-> <<>>, rw_data |-> <<>>,
         stack_size |-> 0, heap_zero_padding_size |-> 0]

TransferLoads(amount, gas_limit) ==
    <<LoadImm(10, ArgsAddress), LoadImm(7, <<2>>), LoadImm(8, <<amount>>),
      LoadImm(9, <<gas_limit>>)>>

\* The programs the engine is set up with.
\*   Transfer: CHECKPOINT, a transfer of 100 to service 2 with gas limit 5
\*     and the memo at ARGS_SEGMENT_START, two CHECKPOINTs, GAS
\*   RefusedTransfers: a transfer to service 2 with gas limit 1, less than
\*     its minmemogas, and a transfer to service 9, which does not exist
\*   GreedyTransfer: a transfer whose gas limit, 2^64 - 56, is more than the
\*     gas left
\*   WideTransfer: a transfer whose gas limit is 2^32 + 5
\*   NewTaken: NEW that asks for the id of service 2
\*   AssignAtZero: ASSIGN of core 0 with the queue at address 0
\*   Assigns: with the queue at ARGS_SEGMENT_START, ASSIGN of a core that
\*     does not exist, of core 0 to the id 2^32 + 2, of core 0 to service 2,
\*     and of core 0 again
\*   WriteRead: WRITE of the value <<20>> under the new key <<20, 1>>, then
\*     READ of that key, all of it (r12 = 2^64 - 1), to the stack page
\*   OverwriteRead: WRITE of <<20>> under the key <<20, 1, 0>>, which holds
\*     <<9, 9>>, then READ of one octet of that key to the stack page
\*   DeleteRead: WRITE of no value under the key <<20, 1, 0>>, then READ of it
\*   SolicitForget: SOLICIT of (ArgsHash, 4), which the caller has not
\*     requested, then FORGET of the same
\*   ForgetLong: FORGET of (ArgsHash, 2^32 + 3)
\*   Provide: PROVIDE of no octets for a service that does not exist, of the
\*     three octets of the arguments for the caller, and of the first two of
\*     them for service 1, the caller again
\*   UnknownHost: 27 is in no registry
\*   RefusedHost: 6 (HISTORICAL_LOOKUP) is refused during accumulation
\*   Halt: JUMP_IND r0, to HALT_ADDRESS during accumulation
\*   Jumps: a taken branch to the next block, a dynamic jump through the jump
\*     table, a branch not taken, and a jump into the middle of an instruction
\*   HaltWide .. HaltNone: a halt with r8 = 2^32 + 1, with r7 = 2^32 + the
\*     address of the arguments, with r7 = 2^32 - 2, with r7 = 0 and with r8 = 0
\*   Yield: YIELD of the 32 octets at the arguments, then a halt
\*   Empty: no code at all
\*   LoadImmJumps: LOAD_IMM_JUMP r7 := 3 to the next block, then
\*     LOAD_IMM_JUMP r8 := 4 into the middle of itself
\*   SelfBranch: a branch on r2 = 0 whose target is the branch itself
\*   SelfJump: one JUMP that stretches over 25 octets and targets itself
Programs ==
    [Transfer |->
         Program(<<Ecalli(FUNC_CHECKPOINT)>> \o TransferLoads(100, 5)
                 \o <<Ecalli(FUNC_TRANSFER), Ecalli(FUNC_CHECKPOINT),
                      Ecalli(FUNC_CHECKPOINT), Ecalli(FUNC_GAS)>>),
     RefusedTransfers |->
         Program(TransferLoads(100, 1)
                 \o <<Ecalli(FUNC_TRANSFER), LoadImm(7, <<9>>), Ecalli(FUNC_TRANSFER)>>),
     GreedyTransfer |->
         Program(TransferLoads(1, 200) \o <<Ecalli(FUNC_TRANSFER), Ecalli(FUNC_GAS)>>),
     WideTransfer |->
         Program(<<LoadImm(10, ArgsAddress), LoadImm(7, <<2>>), LoadImm(8, <<100>>),
                   <<OPCODE_LOAD_IMM_64, 9, 5, 0, 0, 0, 1, 0, 0, 0>>,
                   Ecalli(FUNC_TRANSFER), Ecalli(FUNC_GAS)>>),
     NewReserved |-> Program(<<Ecalli(FUNC_NEW), Ecalli(FUNC_CHECKPOINT)>>),
     NewPublic |->
         Program(<<LoadImm(11, <<255>>), Ecalli(FUNC_NEW), Ecalli(FUNC_CHECKPOINT)>>),
     NewTaken |-> Program(<<LoadImm(12, <<2>>), Ecalli(FUNC_NEW)>>),
     Forget |->
         Program(<<Ecalli(FUNC_FORGET), LoadImm(7, ArgsAddress), Ecalli(FUNC_FORGET)>>),
     ForgetLong |->
         Program(<<<<OPCODE_LOAD_IMM_64, 8, 3, 0, 0, 0, 1, 0, 0, 0>>,
                   Ecalli(FUNC_FORGET)>>),
     Eject |->
         Program(<<LoadImm(7, <<2>>), LoadImm(8, ArgsAddress), Ecalli(FUNC_EJECT),
                   Ecalli(FUNC_CHECKPOINT)>>),
     WriteDelete |-> Program(<<Ecalli(FUNC_WRITE), Ecalli(FUNC_CHECKPOINT)>>),
     WriteSet |->
         Program(<<LoadImm(8, <<2>>), LoadImm(9, ArgsAddress), LoadImm(10, <<1>>),
                   Ecalli(FUNC_WRITE), Ecalli(FUNC_CHECKPOINT)>>),
     Assign |->
         Program(<<LoadImm(7, <<0>>), LoadImm(8, ArgsAddress), LoadImm(9, <<7>>),
                   Ecalli(FUNC_ASSIGN), Ecalli(FUNC_CHECKPOINT)>>),
     AssignAtZero |->
         Program(<<LoadImm(7, <<0>>), LoadImm(8, <<0>>), Ecalli(FUNC_ASSIGN)>>),
     Assigns |->
         Program(<<LoadImm(8, ArgsAddress), Ecalli(FUNC_ASSIGN), LoadImm(7, <<0>>),
                   <<OPCODE_LOAD_IMM_64, 9, 2, 0, 0, 0, 1, 0, 0, 0>>,
                   Ecalli(FUNC_ASSIGN), LoadImm(7, <<0>>), LoadImm(9, <<2>>),
                   Ecalli(FUNC_ASSIGN), Ecalli(FUNC_ASSIGN)>>),
     WriteRead |->
         [Program(<<LoadImm(8, <<2>>), LoadImm(9, ArgsAddress), LoadImm(10, <<1>>),
                    Ecalli(FUNC_WRITE), LoadImm(8, ArgsAddress), LoadImm(9, <<2>>),
                    LoadImm(10, StackAddress), LoadImm(12, <<255>>),
                    Ecalli(FUNC_READ)>>)
             EXCEPT !.stack_size = 1],
     OverwriteRead |->
         [Program(<<LoadImm(9, ArgsAddress), LoadImm(10, <<1>>), Ecalli(FUNC_WRITE),
                    LoadImm(7, <<255>>), LoadImm(8, ArgsAddress), LoadImm(9, <<3>>),
                    LoadImm(10, StackAddress), LoadImm(12, <<1>>),
                    Ecalli(FUNC_READ)>>)
             EXCEPT !.stack_size = 1],
     DeleteRead |->
         [Program(<<Ecalli(FUNC_WRITE), LoadImm(7, <<255>>), LoadImm(8, ArgsAddress),
                    LoadImm(9, <<3>>), LoadImm(10, StackAddress), Ecalli(FUNC_READ)>>)
             EXCEPT !.stack_size = 1],
     Solicit |-> Program(<<Ecalli(FUNC_SOLICIT), Ecalli(FUNC_GAS)>>),
     SolicitForget |->
         Program(<<LoadImm(8, <<4>>), Ecalli(FUNC_SOLICIT), LoadImm(7, ArgsAddress),
                   Ecalli(FUNC_FORGET)>>),
     Provide |->
         Program(<<Ecalli(FUNC_PROVIDE), LoadImm(7, <<255>>), LoadImm(8, ArgsAddress),
                   LoadImm(9, <<3>>), Ecalli(FUNC_PROVIDE), LoadImm(7, <<1>>),
                   LoadImm(9, <<2>>), Ecalli(FUNC_PROVIDE)>>),
     HaltWide |->
         Program(<<<<OPCODE_LOAD_IMM_64, 8, 1, 0, 0, 0, 1, 0, 0, 0>>,
                   <<OPCODE_JUMP_IND, 0>>>>),
     HaltHigh |->
         Program(<<<<OPCODE_LOAD_IMM_64, 7>> \o ArgsAddress \o <<1, 0, 0, 0>>,
                   <<OPCODE_JUMP_IND, 0>>>>),
     HaltPast |->
         Program(<<<<OPCODE_LOAD_IMM_64, 7, 254, 255, 255, 255, 0, 0, 0, 0>>,
                   <<OPCODE_JUMP_IND, 0>>>>),
     HaltUnmapped |-> Program(<<LoadImm(7, <<0>>), <<OPCODE_JUMP_IND, 0>>>>),
     HaltNone |-> Program(<<LoadImm(8, <<0>>), <<OPCODE_JUMP_IND, 0>>>>),
     Yield |-> Program(<<Ecalli(FUNC_YIELD), <<OPCODE_JUMP_IND, 0>>>>),
     Empty |->
         [code |-> <<>>, bitmask |-> <<>>, jump_table |-> <<>>, ro_data |-> <<>>,
          rw_data |-> <<>>, stack_size |-> 0, heap_zero_padding_size |-> 0],
     UnknownHost |-> Program(<<Ecalli(27), Ecalli(FUNC_GAS)>>),
     RefusedHost |-> Program(<<Ecalli(6), Ecalli(FUNC_GAS)>>),
     Halt |-> Program(<<<<OPCODE_JUMP_IND, 0>>>>),
     Memory |->
         [Program(<<<<OPCODE_LOAD_U8, 3>> \o ArgsAddress,
                    <<OPCODE_STORE_U8, 3>> \o StackAddress,
                    <<OPCODE_STORE_U8, 3>> \o ArgsAddress>>)
             EXCEPT !.stack_size = 1],
     Jumps |->
         [Program(<<<<OPCODE_BRANCH_EQ_IMM, 16, 0, 4>>, <<OPCODE_JUMP_IND, 0, 2>>,
                    <<OPCODE_FALLTHROUGH>>, <<OPCODE_BRANCH_NE_IMM, 16, 0, 4>>,
                    <<OPCODE_JUMP, 255>>>>)
             EXCEPT !.jump_table = <<13>>],
     LoadImmJumps |->
         Program(<<<<OPCODE_LOAD_IMM_JUMP, 23, 3, 4>>, <<OPCODE_LOAD_IMM_JUMP, 24, 4, 1>>>>),
     SelfBranch |-> Program(<<<<OPCODE_BRANCH_EQ_IMM, 18, 0, 0>>, <<OPCODE_TRAP>>>>),
     SelfJump |->
         [code |-> <<OPCODE_JUMP>> \o Zeros(25), bitmask |-> <<1>> \o Zeros(25),
          jump_table |-> <<>>, ro_data |-> <<>>, rw_data |-> <<>>, stack_size |-> 0,
          heap_zero_padding_size |-> 0]]

\* The addresses a dynamic jump is given, as the four octets of its immediate:
\* 0, an odd one, 2, 4, 6 (the three entries of the jump table), 8 (behind the
\* table), 2^32 - 2, HALT_ADDRESS, and 2^16 + 4, which HALT_ADDRESS in the
\* register turns into 4.
JumpAddresses ==
    {<<0, 0, 0, 0>>, <<3, 0, 0, 0>>, <<2, 0, 0, 0>>, <<4, 0, 0, 0>>, <<6, 0, 0, 0>>,
     <<8, 0, 0, 0>>, <<254, 255, 255, 255>>, <<0, 0, 255, 255>>, <<4, 0, 1, 0>>}

\* A program whose second instruction, at offset 5, is JUMP_IND r0 + immediate
\* or LOAD_IMM_JUMP_IND r0 := 9, r0 + immediate, followed by FALLTHROUGH and
\* TRAP.  The jump table holds the offset of the jump itself, the offset of
\* the TRAP and an offset within the jump instruction.
DynamicJump(opcode, immediate) ==
    LET jump == IF opcode = OPCODE_JUMP_IND THEN <<OPCODE_JUMP_IND, 0>> \o immediate
                ELSE <<OPCODE_LOAD_IMM_JUMP_IND, 0, 1, 9>> \o immediate
    IN  [Program(<<jump, <<OPCODE_FALLTHROUGH>>, <<OPCODE_TRAP>>>>)
            EXCEPT !.jump_table = <<5, 5 + Len(jump) + 1, 6>>]

DynamicJumps ==
    {DynamicJump(opcode, immediate) :
         opcode \in {OPCODE_JUMP_IND, OPCODE_LOAD_IMM_JUMP_IND},
         immediate \in JumpAddresses}

\* timeslot 20, service 1, no inputs
AccumulateArgs == <<20, 1, 0>>

\* the 32 octets at ARGS_SEGMENT_START
ArgsHash == [i \in 1..32 |-> IF i <= Len(AccumulateArgs) THEN AccumulateArgs[i] ELSE 0]

\* a request value as decode_request_timeslots reads it
RequestValue(timeslots) ==
    <<Len(timeslots)>> \o Concat([i \in 1..Len(timeslots) |-> LeBytes4(timeslots[i])])

\* The caller (service 1): one storage entry under the key <<20, 1, 0>> and one
\* request for (ArgsHash, 3); 3 items and 39 + 84 octets.
CallerAccount(balance, octets, gratis) ==
    [codehash |-> Zeros(32), balance |-> balance, minaccgas |-> <<0, 0>>,
     minmemogas |-> <<0, 0>>, octets |-> octets, gratis |-> gratis, items |-> 3,
     created |-> 0, lastacc |-> 0, parent |-> 0,
     raw_csh_keyvals |->
         <<<<create_storage_key(1, AccumulateArgs), <<9, 9>>>>,
           <<create_request_key(1, ArgsHash, U64(3)), RequestValue(<<3, 5>>)>>>>]

\* Service 2: its code hash names service 1, its only request is (ArgsHash, 3)
TargetAccount ==
    [codehash |-> encode_fixed_length(U64(1), 32), balance |-> U64(300),
     minaccgas |-> <<0, 0>>, minmemogas |-> U64(5), octets |-> U64(84),
     gratis |-> <<0, 0>>, items |-> 2, created |-> 0, lastacc |-> 0, parent |-> 1,
     raw_csh_keyvals |->
         <<<<create_request_key(2, ArgsHash, U64(3)), RequestValue(<<3, 5>>)>>>>]

\* The implications pair of a context in which service 1 is manager, registrar
\* and the assigner of core 0, and service 2 the assigner of core 1.  It is
\* decoded for two cores and an auth_queue_size of 0: one assigner and one
\* empty queue a core.  The staging set, which no host function translated
\* here reads, is left out.
Context(caller, nextfreeid) ==
    LET regular ==
            [id |-> 1,
             state |-> [DefaultPartialState EXCEPT
                           !.accounts = <<[service_id |-> 1, account |-> caller],
                                          [service_id |-> 2, account |-> TargetAccount]>>,
                           !.manager = 1, !.registrar = 1, !.assigners = <<1, 2>>,
                           !.authqueue = <<<<>>, <<>>>>],
             nextfreeid |-> nextfreeid, xfers |-> <<>>, yield_hash |-> None,
             provisions |-> <<>>]
    IN  Some([regular |-> regular,
              exceptional |-> [regular EXCEPT !.nextfreeid = 0]])

\* The contexts the accumulation is set up with.
\*   Rich: balance 1000 over a minimum of 253
\*   Poor: balance 253, the minimum itself
\*   Edge: octets and gratis both 2^64 - 1; the minimum is 100 + 30 = 130, the
\*     balance 150
\*   Crowded: the two ids that follow 70000 + 42 are taken
\*   HighId: the next free id is the last of the public ids, 2^32 - 2^8 - 1
\*   Unsorted: the accounts of Rich, service 2 before service 1
\*   Renewed: the request of service 2 holds three timeslots
\*   Pending: the request of service 2 holds one timeslot
\*   Owing: a transfer of 7 from service 2 is among the regular implications
\*   Orphan: the accounts hold service 2 only, no account of the caller
\*   Awaited: the caller has requested the preimages <<20, 1, 0>> and <<20, 1>>
\*     as well: 7 items, 123 + 84 + 83 octets
\*   Provided: as Awaited, <<20, 1, 0>> being provided already for services 2
\*     and 1
\*   Slot0 .. Slot4: the caller's request holds no, one, two, three and four
\*     timeslots; in the Fresh ones the second is within the expunge period
Contexts ==
    LET rich == Unwrap(Context(CallerAccount(U64(1000), U64(123), <<0, 0>>), 70000))
        More(implications) ==
            [implications EXCEPT !.state.accounts =
                @ \o <<[service_id |-> 70042, account |-> TargetAccount],
                       [service_id |-> 70043, account |-> TargetAccount]>>]
        \* the request for (ArgsHash, 3) of `service` holds `timeslots`
        Requested(implications, service, timeslots) ==
            [implications EXCEPT !.state.accounts[service].account.raw_csh_keyvals =
                raw_set(@, create_request_key(service, ArgsHash, U64(3)),
                        RequestValue(timeslots))]
        Awaiting(implications, provisions) ==
            [implications EXCEPT
                !.provisions = provisions,
                !.state.accounts[1].account.items = 7,
                !.state.accounts[1].account.octets = U64(290),
                !.state.accounts[1].account.raw_csh_keyvals =
                    @ \o <<<<create_request_key(1, blake2b256(AccumulateArgs), U64(3)),
                             RequestValue(<<>>)>>,
                           <<create_request_key(1, blake2b256(<<20, 1>>), U64(2)),
                             RequestValue(<<>>)>>>>]
        Await(provisions) ==
            Some([regular |-> Awaiting(rich.regular, provisions),
                  exceptional |-> Awaiting(rich.exceptional, provisions)])
        \* service 2 before service 1
        Backwards(implications) ==
            [implications EXCEPT !.state.accounts = <<@[2], @[1]>>]
        \* service 2 only
        Alone(implications) ==
            [implications EXCEPT !.state.accounts = <<@[2]>>]
        Slot(service, timeslots) ==
            Some([regular |-> Requested(rich.regular, service, timeslots),
                  exceptional |-> Requested(rich.exceptional, service, timeslots)])
    IN  [Rich |-> Some(rich),
         Poor |-> Context(CallerAccount(U64(253), U64(123), <<0, 0>>), 70000),
         Edge |-> Context(CallerAccount(U64(150), <<-1, -1>>, <<-1, -1>>), 70000),
         Crowded |-> Some([regular |-> More(rich.regular),
                           exceptional |-> More(rich.exceptional)]),
         HighId |-> Context(CallerAccount(U64(1000), U64(123), <<0, 0>>), -257),
         Awaited |-> Await(<<>>),
         Provided |-> Await(<<[service_id |-> 2, blob |-> AccumulateArgs],
                              [service_id |-> 1, blob |-> AccumulateArgs]>>),
         Unsorted |-> Some([regular |-> Backwards(rich.regular),
                            exceptional |-> Backwards(rich.exceptional)]),
         Renewed |-> Slot(2, <<3, 5, 7>>),
         Pending |-> Slot(2, <<3>>),
         Owing |-> Some([regular |-> [rich.regular EXCEPT !.xfers =
                                          <<[source |-> 2, dest |-> 1, amount |-> U64(7),
                                             memo |-> Zeros(C_MEMO_SIZE),
                                             gas_limit |-> U64(5)]>>],
                         exceptional |-> rich.exceptional]),
         Orphan |-> Some([regular |-> Alone(rich.regular),
                          exceptional |-> Alone(rich.exceptional)]),
         Slot0 |-> Slot(1, <<>>),
         Slot1 |-> Slot(1, <<3>>),
         Slot2Fresh |-> Slot(1, <<3, 15>>),
         Slot3 |-> Slot(1, <<3, 5, 7>>),
         Slot3Fresh |-> Slot(1, <<3, 15, 17>>),
         Slot4 |-> Slot(1, <<1, 2, 3, 4>>)]

AccumulateParams(program, context, gas_limit) ==
    [program |-> program, args |-> AccumulateArgs, context |-> context,
     gas_limit |-> gas_limit, num_cores |-> 2, num_validators |-> 6,
     config_preimage_expunge_period |-> 10]

\* the programs that differ only in the result range they leave in registers
\* 7 and 8
ResultPrograms == {"HaltWide", "HaltHigh", "HaltPast", "HaltUnmapped", "HaltNone"}

AccumulateInputs ==
    LET Of(programs, contexts, gas_limits) ==
            {AccumulateParams(Some(Programs[p]), c, g) :
                 p \in programs, c \in contexts, g \in gas_limits}
    IN  Of({"Transfer"}, {Contexts.Rich, Contexts.Poor, Contexts.Edge, None}, {100, 9})
        \cup Of({"Transfer"}, {Contexts.Owing}, {100})
        \cup Of(DOMAIN Programs \ ({"SelfJump", "Transfer"} \cup ResultPrograms),
                 {Contexts.Rich}, {100})
        \cup Of({"NewPublic"}, {Contexts.Crowded, Contexts.HighId}, {100})
        \cup Of({"Eject"}, {Contexts.Renewed, Contexts.Pending, Contexts.Orphan}, {100})
        \cup Of({"NewPublic", "Eject"}, {Contexts.Unsorted}, {100})
        \cup Of({"Provide"}, {Contexts.Awaited, Contexts.Provided}, {100})
        \cup Of({"Forget"}, {Contexts.Slot0, Contexts.Slot1, Contexts.Slot2Fresh,
                             Contexts.Slot3, Contexts.Slot3Fresh, Contexts.Slot4}, {100})
        \cup Of({"NewTaken", "WriteSet", "WriteDelete", "SolicitForget"},
                {Contexts.Poor}, {100})
        \cup Of({"WriteDelete", "Eject"}, {Contexts.Edge}, {100})
        \cup Of({"Assign", "WriteSet", "NewReserved"}, {None}, {100})
        \cup {AccumulateParams(None, Contexts.Rich, 100)}
        \cup {AccumulateParams(Some(DynamicJump(opcode, immediate)), Contexts.Rich, 100) :
                  opcode \in {OPCODE_JUMP_IND, OPCODE_LOAD_IMM_JUMP_IND},
                  immediate \in {<<0, 0, 0, 0>>, <<4, 0, 1, 0>>}}

BlobInputs ==
    {None} \cup {Some(Programs[p]) :
                     p \in {"UnknownHost", "AssignAtZero", "SelfJump", "Jumps",
                             "Transfer", "Memory", "Empty", "LoadImmJumps", "SelfBranch"}}
        \cup {Some(program) : program \in DynamicJumps}

-----------------------------------------------------------------------------
(* The engine as a state machine: lib.rs init, prepare_blob,               *)
(* setup_accumulate_invocation, next_step and n_steps over the one         *)
(* PvmState.                                                               *)

RamKinds == {"Pvm", "Simple"}

NoOp == [op |-> "none"]

StepOps == {"next_step", "n_steps"}

\* lib.rs init(ram_type) on a fresh process
Init ==
    /\ overflow_checks \in BOOLEAN
    /\ aborted = FALSE
    /\ state \in {DefaultPvmState(k) : k \in RamKinds}
    /\ lastOp = NoOp
    /\ calls = 0

\* One program is set up on the fresh engine
CanSetUp == ~aborted /\ lastOp.op = "none"

PrepareBlob(program) ==
    /\ CanSetUp
    /\ state' = prepare_blob_impl(state, program)
    /\ lastOp' = [op |-> "prepare_blob"]
    /\ calls' = 0
    /\ UNCHANGED <<overflow_checks, aborted>>

\* The record of a set-up: `decodable` says that the preimage and the blob in
\* it were decoded, `returned` is what setup_accumulate_from_preimage returns.
SetupRecord(params) ==
    [op |-> "setup_accumulate_invocation", context |-> params.context,
     decodable |-> IsSome(params.program), returned |-> IsSome(params.program)]

SetupAccumulate(params) ==
    /\ CanSetUp
    /\ state' = setup_accumulate_from_preimage(state, params)
    /\ lastOp' = SetupRecord(params)
    /\ calls' = 0
    /\ UNCHANGED <<overflow_checks, aborted>>

\* the set-ups made on an engine that holds a prepared blob: of a preimage
\* that cannot be decoded, and of a context that cannot be decoded
LaterInputs ==
    {AccumulateParams(None, Contexts.Rich, 100),
     AccumulateParams(Some(Programs.Halt), None, 100)}

\* setup_accumulate_invocation after an earlier prepare_blob
SetupAfterBlob(params) ==
    /\ ~aborted /\ lastOp.op = "prepare_blob"
    /\ state' = setup_accumulate_from_preimage(state, params)
    /\ lastOp' = SetupRecord(params)
    /\ calls' = 0
    /\ UNCHANGED <<overflow_checks, aborted>>

\* the host call the step at the program counter dispatches, or -1
HostCallAt(s) ==
    IF /\ Len(s.code) > 0 /\ U32Lt(s.program_counter, Len(s.code)) /\ s.gas_left # 0
       /\ s.code[s.program_counter + 1] = OPCODE_ECALLI
    THEN (IF skip(s.program_counter, s.bitmask) > 0
          THEN s.code[s.program_counter + 2] ELSE 0)
    ELSE -1

\* the instructions and host functions translated here cover the step
Translated(s) ==
    IF Len(s.code) = 0 \/ ~U32Lt(s.program_counter, Len(s.code)) THEN TRUE
    ELSE /\ s.code[s.program_counter + 1] \in
                ModelledOpcodes \cup ((0..255) \ RegisteredOpcodes)
         /\ (HostCallAt(s) \in RegisteredHostFunctions \ ModelledHostFunctions)
                => (s.has_accumulation_context /\ HostCallAt(s) \in 6..13)

StepRecord(op, s, result, made) ==
    [op |-> op, returned |-> result.returned, pc |-> s.program_counter,
     gas |-> s.gas_left, host |-> HostCallAt(s), steps |-> made]

\* the variables after an entry point that left `result`, having made `made`
\* calls of next_step_impl
Stepped(op, result, made) ==
    /\ state' = result.state
    /\ aborted' = result.abort
    /\ lastOp' = StepRecord(op, state, result, made)
    /\ calls' = calls + made
    /\ UNCHANGED overflow_checks

NextStep ==
    /\ ~aborted /\ lastOp.op # "none" /\ calls < MaxSteps
    /\ Translated(state)
    /\ Stepped("next_step", next_step_impl(state), 1)

\* the states n_steps passes through are each within the translated set
RECURSIVE TranslatedRun(_, _)
TranslatedRun(s, steps) ==
    LET After(first) == IF first.abort \/ ~first.returned THEN TRUE
                        ELSE TranslatedRun(first.state, steps - 1)
    IN  IF steps <= 0 THEN TRUE
        ELSE IF ~Translated(s) THEN FALSE
        ELSE After(next_step_impl(s))

NSteps(steps) ==
    LET Ran(result) == Stepped("n_steps", result, result.made)
    IN  /\ ~aborted /\ lastOp.op # "none" /\ calls + steps <= MaxSteps
        /\ TranslatedRun(state, steps)
        /\ Ran(n_steps(state, steps))

\* get_accumulation_context_encoded, for two cores and no queue as at set-up
GetAccumulationContext(num_validators) ==
    /\ ~aborted /\ lastOp.op \in {"prepare_blob", "setup_accumulate_invocation"} \cup StepOps
    /\ lastOp' = [op |-> "get_accumulation_context_encoded",
                  returned |-> get_accumulation_context_encoded(state, 2, num_validators, 0)]
    /\ UNCHANGED <<state, calls, overflow_checks, aborted>>

\* set_gas_left on a prepared blob
SetGasLeft(gas) ==
    /\ ~aborted /\ lastOp.op = "prepare_blob"
    /\ state' = set_gas_left(state, gas)
    /\ lastOp' = [op |-> "set_gas_left"]
    /\ UNCHANGED <<calls, overflow_checks, aborted>>

\* run_program on a program that was set up and has not been stepped: the
\* loop `while next_step_impl(state) {}`, where it ends within the steps left
RunProgram ==
    LET Ran(run) ==
            /\ ~run.returned
            /\ state' = run.state
            /\ aborted' = run.abort
            /\ lastOp' = [op |-> "run_program", steps |-> run.made,
                          returned |-> RunProgramResultOutput(run.state)]
            /\ calls' = calls + run.made
            /\ UNCHANGED overflow_checks
    IN  /\ ~aborted
        /\ lastOp.op \in {"prepare_blob", "setup_accumulate_invocation", "set_gas_left"}
        /\ TranslatedRun(state, MaxSteps - calls)
        /\ Ran(n_steps(state, MaxSteps - calls))

\* get_result once the run has come to a halt
GetResult ==
    LET Got(result) ==
            /\ state' = [state EXCEPT !.ram = result.ram]
            /\ aborted' = result.abort
            /\ lastOp' = [op |-> "get_result", returned |-> result.data]
            /\ UNCHANGED <<calls, overflow_checks>>
    IN  /\ ~aborted /\ lastOp.op \in StepOps \cup {"run_program"}
        /\ state.status = "Halt"
        /\ Got(get_result(state))

Next ==
    \/ \E program \in BlobInputs : PrepareBlob(program)
    \/ \E params \in AccumulateInputs : SetupAccumulate(params)
    \/ \E params \in LaterInputs : SetupAfterBlob(params)
    \/ NextStep
    \/ \E steps \in {0, 3} : NSteps(steps)
    \/ \E num_validators \in {0, 1} : GetAccumulationContext(num_validators)

Spec == Init /\ [][Next]_vars

\* a run to its end and its result: the engine is set up, given gas, run by
\* run_program or stepped, and asked for its result
RunInputs ==
    {AccumulateParams(Some(Programs[p]), Contexts.Rich, 100) :
         p \in ResultPrograms \cup {"Halt", "Empty", "Yield"}}

NextRun ==
    \/ \E program \in {Some(Programs[p]) : p \in {"Empty", "Jumps", "Memory"}} :
           PrepareBlob(program)
    \/ \E params \in RunInputs : SetupAccumulate(params)
    \/ NextStep
    \/ \E gas \in {U64(50)} : SetGasLeft(gas)
    \/ RunProgram
    \/ GetResult

SpecRun == Init /\ [][NextRun]_vars

-----------------------------------------------------------------------------
(* The RAM backends on their own: the backend of a fresh engine, set up    *)
(* through init_page and set_memory (lib.rs) and then read and written     *)
(* through the Ram trait.                                                  *)

AccessTypes == {"None", "Read", "Write"}

\* Page 0, the boundary between pages 0 and 1, and the last page of the space.
RamAddresses == {0, PAGE_SIZE - 1, PAGE_SIZE, -PAGE_SIZE, -2}

RamCounts == {0, 1, 2}

RamValues == {<<7>>, <<7, 9>>}

RamOp(new_ram, abort, record) ==
    /\ ~aborted /\ calls < MaxRamOps
    /\ calls' = calls + 1
    /\ aborted' = abort
    /\ state' = [state EXCEPT !.ram = new_ram]
    /\ lastOp' = record
    /\ UNCHANGED overflow_checks

RamInitPage(address, length, access_type) ==
    LET res == init_page(state.ram, address, length, access_type)
    IN  RamOp(IF IsSome(res) THEN Unwrap(res) ELSE state.ram, ~IsSome(res),
              [op |-> "init_page", address |-> address, length |-> length])

RamSetMemory(address, values) ==
    LET res == write_octets_during_initialization(state.ram, address, values)
    IN  RamOp(IF IsSome(res) THEN Unwrap(res) ELSE state.ram, ~IsSome(res),
              [op |-> "set_memory", address |-> address, length |-> Len(values)])

RamRead(address, count) ==
    LET res == read_octets(state.ram, address, count)
    IN  RamOp(res.ram, res.abort,
              [op |-> "read_octets", address |-> address, length |-> count,
               data |-> res.data, fault_address |-> res.fault_address])

RamWrite(address, values) ==
    LET res == write_octets(state.ram, address, values)
    IN  RamOp(res.ram, res.abort,
              [op |-> "write_octets", address |-> address, length |-> Len(values),
               has_fault |-> res.has_fault, fault_address |-> res.fault_address])

NextRam ==
    \/ \E a \in {0, PAGE_SIZE, -PAGE_SIZE}, n \in {1, PAGE_SIZE}, t \in AccessTypes :
          RamInitPage(a, n, t)
    \/ \E a \in RamAddresses, v \in RamValues : RamSetMemory(a, v)
    \/ \E a \in RamAddresses, n \in RamCounts : RamRead(a, n)
    \/ \E a \in RamAddresses, v \in RamValues : RamWrite(a, v)

SpecRam == Init /\ [][NextRam]_vars

\* The pages a request of `count` octets at `address` overlaps; a request that
\* runs past the top of the address space overlaps every page up to the last.
OverlappingPages(address, count) ==
    IF count = 0 THEN {}
    ELSE get_page_index(address)..
             get_page_index(IF U32AddOverflows(address, count - 1) THEN -1
                            ELSE address + count - 1)

\* C8: read_octets returns data only if every page the range overlaps has Read
\* or Write access; write_octets changes memory only if every such page has
\* Write access; an access that fails changes no octet of memory.  For both
\* backends and every page, page 0 and the top of the address space included.
C8_PageProtection ==
    [][/\ lastOp'.op = "read_octets" /\ ~aborted' /\ IsSome(lastOp'.data)
            => \A p \in OverlappingPages(lastOp'.address, lastOp'.length) :
                   get_page_access(state.ram, p) \in {"Read", "Write"}
       /\ lastOp'.op = "write_octets" /\ state'.ram.bytes # state.ram.bytes
            => \A p \in OverlappingPages(lastOp'.address, lastOp'.length) :
                   get_page_access(state.ram, p) = "Write"
       /\ \/ lastOp'.op = "read_octets" /\ ~IsSome(lastOp'.data)
          \/ lastOp'.op = "write_octets" /\ lastOp'.has_fault
            => state'.ram.bytes = state.ram.bytes]_vars

-----------------------------------------------------------------------------
(* The codec of the implications pair on its own: pairs are encoded and    *)
(* the encoding decoded, encodings are decoded and the pair encoded, for   *)
(* one core, one validator and an auth_queue_size of 1.                    *)

\* the sizes every call of the codec is given
CodecSizes == [num_cores |-> 1, num_validators |-> 1, auth_queue_size |-> 1]

\* An account of two key-value pairs, its balance above 2^32
CodecAccount ==
    [codehash |-> [i \in 1..32 |-> i], balance |-> <<1, 1000>>, minaccgas |-> U64(7),
     minmemogas |-> U64(5), octets |-> U64(123), gratis |-> <<0, 0>>, items |-> 3,
     created |-> 4, lastacc |-> 9, parent |-> 0,
     raw_csh_keyvals |-> <<<<<<0, 255, 1>>, <<9, 9>>>>, <<<<3>>, <<>>>>>>]

CodecTransfer ==
    [source |-> 1, dest |-> 2, amount |-> <<1, 100>>,
     memo |-> [i \in 1..MEMO_SIZE |-> i], gas_limit |-> U64(5)]

\* The implications the codec is driven with: no or one transfer, no or one
\* provision, a yield hash or none, no always-accumulator, one with a gas of
\* 32 bits or one with a gas above 2^32, and no, one or two accounts.
CodecImplications ==
    {[id |-> 1,
      state |-> [accounts |-> accounts,
                 stagingset |-> <<[i \in 1..VALIDATOR_KEY_SIZE |-> i % 256]>>,
                 authqueue |-> <<<<[i \in 1..HASH_SIZE |-> 2 * i]>>>>,
                 manager |-> 1, assigners |-> <<2>>, delegator |-> 3, registrar |-> -1,
                 alwaysaccers |-> alwaysaccers],
      nextfreeid |-> 70000, xfers |-> xfers, yield_hash |-> yield_hash,
      provisions |-> provisions] :
         accounts \in {<<>>, <<[service_id |-> 1, account |-> CodecAccount]>>,
                       <<[service_id |-> 1, account |-> CodecAccount],
                         [service_id |-> 70000,
                          account |-> [CodecAccount EXCEPT !.raw_csh_keyvals = <<>>]]>>},
         alwaysaccers \in {<<>>, <<[service_id |-> 1, gas |-> U64(-1)]>>,
                           <<[service_id |-> 1, gas |-> <<1, 5>>]>>},
         xfers \in {<<>>, <<CodecTransfer>>},
         yield_hash \in {None, Some([i \in 1..32 |-> 255 - i])},
         provisions \in {<<>>, <<[service_id |-> 1, blob |-> <<20, 1, 0>>]>>}}

\* the regular implications with the exceptional ones the same, or the first
\* of them without its accounts
CodecPairs ==
    {[regular |-> regular, exceptional |-> exceptional] :
         regular \in CodecImplications,
         exceptional \in {[id |-> 1,
                           state |-> [accounts |-> <<>>,
                                      stagingset |-> <<Zeros(VALIDATOR_KEY_SIZE)>>,
                                      authqueue |-> <<<<Zeros(HASH_SIZE)>>>>,
                                      manager |-> 1, assigners |-> <<2>>,
                                      delegator |-> 3, registrar |-> -1,
                                      alwaysaccers |-> <<>>],
                           nextfreeid |-> 70000, xfers |-> <<>>, yield_hash |-> None,
                           provisions |-> <<>>]}}

\* The encoding of a pair in which each sequence of transfers and of
\* provisions is its count followed by its elements: what the decoder reads
Serialized(pair) ==
    LET Counted(elements) == encode_natural(Len(elements)) \o Concat(elements)
        One(implications) ==
            LeBytes4(implications.id)
                \o encode_partial_state(implications.state, CodecSizes.num_cores, CodecSizes.num_validators,
                    CodecSizes.auth_queue_size)
                \o LeBytes4(implications.nextfreeid)
                \o Counted([i \in 1..Len(implications.xfers) |->
                               encode_deferred_transfer(implications.xfers[i])])
                \o (IF IsSome(implications.yield_hash)
                    THEN <<1>> \o Unwrap(implications.yield_hash) ELSE <<0>>)
                \o Counted([i \in 1..Len(implications.provisions) |->
                               encode_provision_entry(implications.provisions[i])])
    IN  One(pair.regular) \o One(pair.exceptional)

CodecDone(record) ==
    /\ ~aborted
    /\ lastOp' = record
    /\ calls' = calls + 1
    /\ UNCHANGED <<state, overflow_checks, aborted>>

\* encode_implications_pair of a pair
EncodePair(pair) ==
    /\ lastOp.op = "none"
    /\ CodecDone([op |-> "encode_implications_pair", pair |-> pair, of |-> "pair",
                  encoded |-> encode_implications_pair(pair, CodecSizes.num_cores, CodecSizes.num_validators,
                    CodecSizes.auth_queue_size)])

\* decode_implications_pair of what was encoded
DecodeEncoded ==
    /\ lastOp.op = "encode_implications_pair" /\ lastOp.of = "pair"
    /\ CodecDone([op |-> "decode_implications_pair", pair |-> lastOp.pair,
                  of |-> "encoding", data |-> lastOp.encoded,
                  decoded |-> decode_implications_pair(lastOp.encoded, CodecSizes.num_cores, CodecSizes.num_validators,
                    CodecSizes.auth_queue_size)])

\* decode_implications_pair of an encoding
DecodeBlob(data) ==
    /\ lastOp.op = "none"
    /\ CodecDone([op |-> "decode_implications_pair", of |-> "blob", data |-> data,
                  decoded |-> decode_implications_pair(data, CodecSizes.num_cores, CodecSizes.num_validators,
                    CodecSizes.auth_queue_size)])

\* encode_implications_pair of what was decoded
EncodeDecoded ==
    /\ lastOp.op = "decode_implications_pair" /\ lastOp.of = "blob"
    /\ IsSome(lastOp.decoded)
    /\ CodecDone([op |-> "encode_implications_pair", of |-> "decoded",
                  data |-> lastOp.data,
                  encoded |-> encode_implications_pair(Unwrap(lastOp.decoded).value,
                                                       CodecSizes.num_cores, CodecSizes.num_validators,
                    CodecSizes.auth_queue_size)])

NextCodec ==
    \/ \E pair \in CodecPairs : EncodePair(pair)
    \/ DecodeEncoded
    \/ \E pair \in CodecPairs : DecodeBlob(Serialized(pair))
    \/ EncodeDecoded

SpecCodec == Init /\ [][NextCodec]_vars


-----------------------------------------------------------------------------
(* The rest of the Ram trait (ram.rs, simple_ram.rs): allocate_pages,      *)
(* set_page_access_rights, the heap pointer and get_page_dump.  An         *)
(* operation returns Some(the RAM), or None where its arithmetic traps.    *)

\* end_page * PAGE_SIZE, or None where the product traps
PagesEnd(end_page) ==
    IF end_page >= 0 /\ end_page < PagesInAddressSpace THEN Some(PageBase(end_page))
    ELSE IF overflow_checks THEN None
    ELSE Some(PageBase(end_page % PagesInAddressSpace))

PvmRam_allocate_pages(r, start_page, count) ==
    LET end_page == U32WrapAdd(start_page, count)
        allocated == IF U32Lt(start_page, end_page)
                     THEN start_page..(end_page - 1) ELSE {}
        end_address == PagesEnd(end_page)
    IN  IF U32AddOverflows(start_page, count) /\ overflow_checks THEN None
        ELSE IF ~IsSome(end_address) THEN None
        ELSE Some([r EXCEPT
                 !.pages = @ \cup allocated,
                 !.page_access = InsertAccess(@, allocated, "Write"),
                 !.current_heap_pointer =
                     IF U32Lt(@, Unwrap(end_address)) THEN Unwrap(end_address) ELSE @])

\* the pages are made, their access rights are left as they are
SimpleRam_allocate_pages(r, start_page, count) ==
    LET end_addr == PagesEnd(U32WrapAdd(start_page, count))
        Grown(grown) ==
            IF ~IsSome(grown) THEN None
            ELSE Some([Unwrap(grown) EXCEPT
                     !.current_heap_pointer =
                         IF U32Lt(@, Unwrap(end_addr)) THEN Unwrap(end_addr) ELSE @])
    IN  IF U32AddOverflows(start_page, count) /\ overflow_checks THEN None
        ELSE IF ~IsSome(end_addr) THEN None
        ELSE Grown(SimpleRam_ensure_memory_size(r, Unwrap(end_addr)))

\* A length of 0 is not set apart: address + length - 1 traps at address 0,
\* or wraps to the last address, so that every page takes the access type.
PvmRam_set_page_access_rights(r, address, length, access_type) ==
    LET last == U32WrapAdd(address, length) - 1
        start_page == get_page_index(address)
        end_page == get_page_index(last)
    IN  IF overflow_checks
               /\ (U32AddOverflows(address, length) \/ (address = 0 /\ length = 0))
        THEN None
        ELSE Some([r EXCEPT !.page_access =
                       InsertAccess(@, start_page..end_page, access_type)])

SimpleRam_set_page_access_rights(r, address, length, access_type) ==
    IF length = 0 THEN Some(r)
    ELSE IF U32AddOverflows(address, length) /\ overflow_checks THEN None
    ELSE Some([r EXCEPT !.page_access =
                   InsertAccess(@, get_page_index(address)
                                       ..get_page_index(U32WrapAdd(address, length) - 1),
                                access_type)])

\* The page as the octets that are not 0, by their offset in the page
PageOctets(r, page_index, limit) ==
    LET base == PageBase(page_index)
        held == {x \in DOMAIN r.bytes : x >= base /\ x < base + PAGE_SIZE /\ x < limit}
    IN  [offset \in {x - base : x \in held} |-> r.bytes[base + offset]]

\* the page where the map holds it, a page of zeros where not
PvmRam_get_page_dump(r, page_index) ==
    IF page_index \in r.pages THEN PageOctets(r, page_index, PageBase(page_index) + PAGE_SIZE)
    ELSE <<>>

\* what of the page lies within the memory, zeros behind it
SimpleRam_get_page_dump(r, page_index) == PageOctets(r, page_index, r.memory_len)

allocate_pages(r, start_page, count) ==
    IF r.kind = "Pvm" THEN PvmRam_allocate_pages(r, start_page, count)
    ELSE SimpleRam_allocate_pages(r, start_page, count)

set_page_access_rights(r, address, length, access_type) ==
    IF r.kind = "Pvm" THEN PvmRam_set_page_access_rights(r, address, length, access_type)
    ELSE SimpleRam_set_page_access_rights(r, address, length, access_type)

is_readable_with_fault(r, address, size) ==
    IF r.kind = "Pvm" THEN PvmRam_is_readable_with_fault(r, address, size)
    ELSE SimpleRam_is_readable_with_fault(r, address, size)

is_writable_with_fault(r, address, size) ==
    IF r.kind = "Pvm" THEN PvmRam_is_writable_with_fault(r, address, size)
    ELSE SimpleRam_is_writable_with_fault(r, address, size)

get_page_dump(r, page_index) ==
    IF r.kind = "Pvm" THEN PvmRam_get_page_dump(r, page_index)
    ELSE SimpleRam_get_page_dump(r, page_index)

current_heap_pointer(r) == r.current_heap_pointer

set_current_heap_pointer(r, value) == [r EXCEPT !.current_heap_pointer = value]

-----------------------------------------------------------------------------
(* The two backends side by side: a fresh PvmRam and a fresh SimpleRam are *)
(* given the same operations of the Ram trait, and what each returns is    *)
(* recorded.                                                               *)

PairAddresses == {0, PAGE_SIZE}

PairPages == {0, 1}

InitPair ==
    /\ overflow_checks \in BOOLEAN
    /\ aborted = FALSE
    /\ state = [pvm |-> NewRam("Pvm"), simple |-> NewRam("Simple")]
    /\ lastOp = NoOp
    /\ calls = 0

\* The variables after an operation that left the RAMs `pvm` and `simple`
\* (None where it trapped) and returned `pvm_returned` and `simple_returned`
PairOp(op, pvm, simple, pvm_returned, simple_returned) ==
    /\ ~aborted /\ calls < MaxRamOps
    /\ calls' = calls + 1
    /\ aborted' = (~IsSome(pvm) \/ ~IsSome(simple))
    /\ state' = [pvm |-> IF IsSome(pvm) THEN Unwrap(pvm) ELSE state.pvm,
                 simple |-> IF IsSome(simple) THEN Unwrap(simple) ELSE state.simple]
    /\ lastOp' = [op |-> op, pvm |-> pvm_returned, simple |-> simple_returned,
                  trapped |-> <<~IsSome(pvm), ~IsSome(simple)>>]
    /\ UNCHANGED overflow_checks

\* an operation that returns nothing
PairUpdate(op, pvm, simple) == PairOp(op, pvm, simple, "done", "done")

PairInitPage(address, length, access_type) ==
    PairUpdate("init_page", init_page(state.pvm, address, length, access_type),
               init_page(state.simple, address, length, access_type))

PairSetPageAccessRights(address, length, access_type) ==
    PairUpdate("set_page_access_rights",
               set_page_access_rights(state.pvm, address, length, access_type),
               set_page_access_rights(state.simple, address, length, access_type))

PairAllocatePages(start_page, count) ==
    PairUpdate("allocate_pages", allocate_pages(state.pvm, start_page, count),
               allocate_pages(state.simple, start_page, count))

PairWriteDuringInitialization(address, values) ==
    PairUpdate("write_octets_during_initialization",
               write_octets_during_initialization(state.pvm, address, values),
               write_octets_during_initialization(state.simple, address, values))

\* what a read or a write leaves and returns
PairAccess(op, pvm_result, simple_result, Returned(_)) ==
    PairOp(op, IF pvm_result.abort THEN None ELSE Some(pvm_result.ram),
           IF simple_result.abort THEN None ELSE Some(simple_result.ram),
           Returned(pvm_result), Returned(simple_result))

PairReadOctets(address, count) ==
    LET Returned(result) == <<result.data, result.fault_address>>
    IN  PairAccess("read_octets", read_octets(state.pvm, address, count),
                   read_octets(state.simple, address, count), Returned)

PairWriteOctets(address, values) ==
    LET Returned(result) == <<result.has_fault, result.fault_address>>
    IN  PairAccess("write_octets", write_octets(state.pvm, address, values),
                   write_octets(state.simple, address, values), Returned)

\* what a check returns; the RAM is left alone
PairCheck(op, pvm_check, simple_check) ==
    PairOp(op, IF pvm_check.abort THEN None ELSE Some(state.pvm),
           IF simple_check.abort THEN None ELSE Some(state.simple),
           <<pvm_check.success, pvm_check.fault_address>>,
           <<simple_check.success, simple_check.fault_address>>)

PairIsReadable(address, size) ==
    PairCheck("is_readable_with_fault", is_readable_with_fault(state.pvm, address, size),
              is_readable_with_fault(state.simple, address, size))

PairIsWritable(address, size) ==
    PairCheck("is_writable_with_fault", is_writable_with_fault(state.pvm, address, size),
              is_writable_with_fault(state.simple, address, size))

PairHeapPointer ==
    PairOp("current_heap_pointer", Some(state.pvm), Some(state.simple),
           current_heap_pointer(state.pvm), current_heap_pointer(state.simple))

PairSetHeapPointer(value) ==
    PairUpdate("set_current_heap_pointer",
               Some(set_current_heap_pointer(state.pvm, value)),
               Some(set_current_heap_pointer(state.simple, value)))

PairPageDump(page_index) ==
    PairOp("get_page_dump", Some(state.pvm), Some(state.simple),
           get_page_dump(state.pvm, page_index), get_page_dump(state.simple, page_index))

NextPair ==
    \/ \E a \in PairAddresses, t \in AccessTypes : PairInitPage(a, 1, t)
    \/ \E a \in PairAddresses, t \in AccessTypes : PairSetPageAccessRights(a, 1, t)
    \/ \E p \in PairPages, n \in {0, 1} : PairAllocatePages(p, n)
    \/ \E a \in PairAddresses : PairWriteDuringInitialization(a, <<7>>)
    \/ \E a \in PairAddresses, n \in {0, 1} : PairReadOctets(a, n)
    \/ \E a \in PairAddresses : PairWriteOctets(a, <<7>>)
    \/ \E a \in PairAddresses : PairIsReadable(a, 1)
    \/ \E a \in PairAddresses : PairIsWritable(a, 1)
    \/ PairHeapPointer
    \/ \E a \in PairAddresses : PairSetHeapPointer(a)
    \/ \E p \in PairPages : PairPageDump(p)

SpecPair == InitPair /\ [][NextPair]_vars

\* C25: given the same operations from a fresh state, PvmRam and SimpleRam
\* return the same: data, fault flag, fault address, heap pointer and page
\* dump, and neither traps where the other does not.
C25_RamEquivalence ==
    lastOp.op # "none" => lastOp.pvm = lastOp.simple /\ lastOp.trapped[1] = lastOp.trapped[2]

-----------------------------------------------------------------------------
(* Threads on the process-wide engine (state_wrapper.rs STATE, a Mutex).   *)
(* Here `state` holds the engine, the holder of the lock and each thread's *)
(* position in its call; a call takes the lock with get_state() and gives  *)
(* it back where its guard goes out of scope or is dropped.                *)

Threads == {"a", "b"}

MaxThreadCalls == 4

EntryPoints ==
    {"setup_accumulate_invocation", "n_steps", "get_gas_left", "get_accumulation_context"}

\* the steps asked of n_steps, and the set-up every thread asks for
ThreadSteps == 2

ThreadSetup == AccumulateParams(Some(Programs.Yield), Contexts.Rich, 100)

\* lib.rs get_accumulation_context, the fallback: the yield hash if it has 32
\* octets, the empty buffer if not
yield_hash_fallback(s) ==
    IF IsSome(s.yield_hash) /\ Len(Unwrap(s.yield_hash)) = HASH_LEN
    THEN Unwrap(s.yield_hash) ELSE <<>>

\* lib.rs get_accumulation_context run on its own
get_accumulation_context(s) ==
    LET Got(encoded) == IF IsSome(encoded) THEN Unwrap(encoded)
                        ELSE yield_hash_fallback(s)
    IN  Got(get_accumulation_context_encoded(s, 2, 0, 0))

\* what an entry point returns when it runs alone on engine s, as octets
SequentialOutcome(call, s) ==
    CASE call = "setup_accumulate_invocation" -> <<>>
      [] call = "n_steps" -> <<IF n_steps(s, ThreadSteps).returned THEN 1 ELSE 0>>
      [] call = "get_gas_left" -> <<s.gas_left>>
      [] call = "get_accumulation_context" -> get_accumulation_context(s)

IdleThread ==
    [at |-> "idle", call |-> "none", left |-> 0, result |-> None, outcomes |-> {}]

InitThreads ==
    /\ overflow_checks \in BOOLEAN
    /\ aborted = FALSE
    /\ state = [engine |-> DefaultPvmState("Pvm"), holder |-> "none",
                threads |-> [t \in Threads |-> IdleThread]]
    /\ lastOp = NoOp
    /\ calls = 0

\* a thread calls an entry point; the engine as it now stands is one of the
\* states the call may be taken to act on, unless another call is under way
Invoke(t, call) ==
    /\ ~aborted /\ calls < MaxThreadCalls
    /\ state.threads[t].at = "idle"
    /\ call = "setup_accumulate_invocation"
           => /\ ~state.engine.has_accumulation_context
              /\ \A u \in Threads : state.threads[u].call # call
    /\ state' = [state EXCEPT !.threads[t] =
                     [at |-> "waiting", call |-> call,
                      left |-> IF call = "n_steps" THEN ThreadSteps ELSE 0,
                      result |-> None,
                      outcomes |-> IF state.holder = "none"
                                   THEN {SequentialOutcome(call, state.engine)}
                                   ELSE {}]]
    /\ calls' = calls + 1
    /\ UNCHANGED <<lastOp, overflow_checks, aborted>>

\* STATE.lock() returns: for the call, or for the fallback of
\* get_accumulation_context
Acquire(t) ==
    /\ ~aborted /\ state.holder = "none"
    /\ state.threads[t].at \in {"waiting", "between"}
    /\ state' = [state EXCEPT !.holder = t,
                              !.threads[t].at = IF @ = "waiting" THEN "holding"
                                                ELSE "holding_again"]
    /\ UNCHANGED <<lastOp, calls, overflow_checks, aborted>>

\* one round of the loop of n_steps, the lock held; the loop ends with the
\* last round or with the first false
StepHolding(t) ==
    LET Made(result) ==
            /\ state' = [state EXCEPT
                   !.engine = result.state,
                   !.threads[t] =
                       IF result.returned /\ @.left > 1 THEN [@ EXCEPT !.left = @ - 1]
                       ELSE [@ EXCEPT !.at = "done", !.left = 0,
                                      !.result = Some(<<IF result.returned THEN 1 ELSE 0>>)]]
            /\ aborted' = result.abort
    IN  /\ ~aborted /\ state.holder = t
        /\ state.threads[t].at = "holding" /\ state.threads[t].call = "n_steps"
        /\ Translated(state.engine)
        /\ Made(next_step_impl(state.engine))
        /\ UNCHANGED <<lastOp, calls, overflow_checks>>

\* the body of setup_accumulate_invocation, the lock held
SetupHolding(t) ==
    /\ ~aborted /\ state.holder = t
    /\ state.threads[t].at = "holding"
    /\ state.threads[t].call = "setup_accumulate_invocation"
    /\ state' = [state EXCEPT
           !.engine = setup_accumulate_from_preimage(state.engine, ThreadSetup),
           !.threads[t] = [@ EXCEPT !.at = "done", !.result = Some(<<>>)]]
    /\ UNCHANGED <<lastOp, calls, overflow_checks, aborted>>

\* the body of a call that reads, the lock held: get_gas_left, the section of
\* get_accumulation_context_encoded (no result where there is no encoding),
\* and the fallback of get_accumulation_context
ReadHolding(t) ==
    LET thread == state.threads[t]
    IN  /\ ~aborted /\ state.holder = t
        /\ \/ thread.at = "holding"
              /\ thread.call \in {"get_gas_left", "get_accumulation_context"}
           \/ thread.at = "holding_again"
        /\ state' = [state EXCEPT !.threads[t] =
               [@ EXCEPT
                   !.at = "done",
                   !.result =
                       IF thread.at = "holding_again"
                       THEN Some(yield_hash_fallback(state.engine))
                       ELSE IF thread.call = "get_gas_left"
                       THEN Some(<<state.engine.gas_left>>)
                       ELSE get_accumulation_context_encoded(state.engine, 2, 0, 0)]]
        /\ UNCHANGED <<lastOp, calls, overflow_checks, aborted>>

\* the guard is dropped: every call under way may be taken to act on the
\* engine as it now stands; the call returns its result, or, with no encoding
\* from get_accumulation_context_encoded, goes on to the fallback
Release(t) ==
    LET thread == state.threads[t]
        returns == IsSome(thread.result)
    IN  /\ ~aborted /\ state.holder = t /\ thread.at = "done"
        /\ state' = [state EXCEPT
               !.holder = "none",
               !.threads = [u \in Threads |->
                   IF u = t
                   THEN (IF returns THEN IdleThread ELSE [thread EXCEPT !.at = "between"])
                   ELSE IF state.threads[u].at = "idle" THEN state.threads[u]
                   ELSE [state.threads[u] EXCEPT
                            !.outcomes = @ \cup {SequentialOutcome(state.threads[u].call,
                                                                   state.engine)}]]]
        /\ lastOp' = IF returns
                     THEN [op |-> thread.call, thread |-> t,
                           returned |-> Unwrap(thread.result),
                           outcomes |-> thread.outcomes]
                     ELSE lastOp
        /\ UNCHANGED <<calls, overflow_checks, aborted>>

NextThreads ==
    \/ \E t \in Threads, call \in EntryPoints : Invoke(t, call)
    \/ \E t \in Threads : Acquire(t)
    \/ \E t \in Threads : StepHolding(t)
    \/ \E t \in Threads : SetupHolding(t)
    \/ \E t \in Threads : ReadHolding(t)
    \/ \E t \in Threads : Release(t)

SpecThreads == InitThreads /\ [][NextThreads]_vars

-----------------------------------------------------------------------------
(* Erasure coding (erasure-coding/rust-reed-solomon/src/lib.rs).           *)
(* Here `state` holds a coder, a byte string and what encode made of it.   *)
(* The reed_solomon_simd coder is taken by its contract: a recovery shard  *)
(* determines, with the other shards of its piece, every original shard of *)
(* the piece, so its two octets stand for the originals they were made of. *)

\* ReedSolomonEncoder::new(C, V - C, 2), add_original_shard, encode: the
\* recovery shards of one piece, two octets each
RecoveryShards(originals, recovery_count) ==
    [j \in 1..recovery_count |->
        [lane \in 1..2 |-> [row |-> j, lane |-> lane, originals |-> originals]]]

\* ReedSolomonCoder::encode, data the octets of the buffer
encode(coder, data) ==
    LET C == coder.k
        V == coder.n
        W_E == C * 2
        padded_data == IF Len(data) % W_E # 0
                       THEN data \o Zeros(W_E - (Len(data) % W_E)) ELSE data
        shard_size == Len(padded_data) \div C
        k == Len(padded_data) \div W_E
        \* the shard of original c in piece i, both counted from 0
        shard(i, c) == <<padded_data[i * 2 + c * shard_size + 1],
                         padded_data[i * 2 + c * shard_size + 2]>>
        piece(i) == [c \in 1..C |-> shard(i, c - 1)]
        original_shards == [c \in 1..C |-> Concat([i \in 1..k |-> shard(i - 1, c - 1)])]
        recovery_shards ==
            [j \in 1..(V - C) |->
                Concat([i \in 1..k |-> RecoveryShards(piece(i - 1), V - C)[j]])]
    IN  [shards_with_indices |->
             [c \in 1..C |-> [shard |-> original_shards[c], index |-> c - 1]]
                 \o [j \in 1..(V - C) |->
                        [shard |-> recovery_shards[j], index |-> C + j - 1]],
         original_length |-> Len(data)]

\* reconstructed_data.truncate(original_length)
truncate(data, length) == IF Len(data) > length THEN SubSeq(data, 1, length) ELSE data

\* ReedSolomonDecoder::new(C, V - C, 2), add_original_shard and
\* add_recovery_shard for every shard given, decode: no result where a shard
\* is not of the two octets the decoder was made for or fewer than C shards
\* were added; else the original shards that were not given, restored, in the
\* order of their indices (restored_original_iter)
restored_original(shards_with_indices, C) ==
    LET given == {shards_with_indices[x].index : x \in DOMAIN shards_with_indices}
        missing == {c \in 0..(C - 1) : c \notin given}
        recovery == {x \in DOMAIN shards_with_indices : shards_with_indices[x].index >= C}
        originals == shards_with_indices[CHOOSE x \in recovery : TRUE].shard[1].originals
        RECURSIVE InOrder(_)
        InOrder(indices) ==
            IF indices = {} THEN <<>>
            ELSE LET least == CHOOSE c \in indices : \A d \in indices : c <= d
                 IN  <<originals[least + 1]>> \o InOrder(indices \ {least})
    IN  IF \E x \in DOMAIN shards_with_indices : Len(shards_with_indices[x].shard) # 2
        THEN None
        ELSE IF Len(shards_with_indices) < C THEN None
        ELSE Some(IF missing = {} THEN <<>> ELSE InOrder(missing))

\* ReedSolomonCoder::decode: Some(the buffer returned) or None for an error
decode(coder, encoded) ==
    LET C == coder.k
        shards == encoded.shards_with_indices
        \* original_shards[c]: the last shard given with index c, if any
        holders(c) == {x \in DOMAIN shards : shards[x].index = c}
        has_all_original == \A c \in 0..(C - 1) : holders(c) # {}
        original(c) == shards[CHOOSE x \in holders(c) : \A y \in holders(c) : y <= x].shard
        shard_size == Len(shards[1].shard)
        k == shard_size \div 2
        \* the octet pair pushed for piece j and position i of the restored shards
        pushed(restored, j, i) ==
            IF i + 1 <= Len(restored) /\ j * 2 + 1 < Len(restored[i + 1])
            THEN <<restored[i + 1][j * 2 + 1], restored[i + 1][j * 2 + 2]>>
            ELSE <<>>
        Laced(restored) ==
            Concat([j \in 1..k |-> Concat([i \in 1..C |-> pushed(restored, j - 1, i - 1)])])
        Recovered(result) ==
            IF ~IsSome(result) THEN None
            ELSE Some(truncate(Laced(Unwrap(result)), encoded.original_length))
    IN  IF Len(shards) < C THEN None
        ELSE IF has_all_original
        THEN Some(truncate(Concat([c \in 1..C |-> original(c - 1)]),
                           encoded.original_length))
        ELSE Recovered(restored_original(shards, C))

\* the coders (k, n) and the byte strings that are encoded
Coders == {[k |-> 1, n |-> 2], [k |-> 2, n |-> 4]}

MaxDataLen == 5

CoderData == {[i \in 1..len |-> i] : len \in 0..MaxDataLen}

InitCoder ==
    /\ overflow_checks = FALSE
    /\ aborted = FALSE
    /\ state \in {[coder |-> coder, data |-> data, encoded |-> None] :
                     coder \in Coders, data \in CoderData}
    /\ lastOp = NoOp
    /\ calls = 0

Encode ==
    /\ ~IsSome(state.encoded)
    /\ state' = [state EXCEPT !.encoded = Some(encode(state.coder, state.data))]
    /\ lastOp' = [op |-> "encode"]
    /\ UNCHANGED <<calls, overflow_checks, aborted>>

\* one shard is lost, at least k being left
LoseShard(x) ==
    LET shards == Unwrap(state.encoded).shards_with_indices
    IN  /\ IsSome(state.encoded)
        /\ x \in DOMAIN shards /\ Len(shards) > state.coder.k
        /\ state' = [state EXCEPT !.encoded =
                         Some([Unwrap(state.encoded) EXCEPT !.shards_with_indices =
                                   SubSeq(shards, 1, x - 1)
                                       \o SubSeq(shards, x + 1, Len(shards))])]
        /\ lastOp' = [op |-> "lose", index |-> shards[x].index]
        /\ UNCHANGED <<calls, overflow_checks, aborted>>

Decode ==
    /\ IsSome(state.encoded)
    /\ lastOp' = [op |-> "decode", returned |-> decode(state.coder, Unwrap(state.encoded))]
    /\ UNCHANGED <<state, calls, overflow_checks, aborted>>

NextCoder ==
    \/ Encode
    \/ \E x \in 1..4 : LoseShard(x)
    \/ Decode

SpecCoder == InitCoder /\ [][NextCoder]_vars

-----------------------------------------------------------------------------
(* Properties of the engine.                                               *)

TerminalStatuses == {"Halt", "Panic", "Fault", "Oog"}

\* what a host function can reach of the accumulation context
AccumulationContext(s) ==
    <<s.accumulation_service_id, s.accumulation_accounts,
      s.accumulation_implications_regular, s.accumulation_nextfreeid,
      s.accumulation_pending_xfers, s.accumulation_provisions,
      s.accumulation_regular_state, s.yield_hash>>

\* the step at the program counter executes an instruction
Executes(s) ==
    IF Len(s.code) = 0 \/ ~U32Lt(s.program_counter, Len(s.code)) THEN FALSE
    ELSE s.gas_left # 0 /\ s.code[s.program_counter + 1] \in RegisteredOpcodes

\* C1: once the status is Halt, Panic, Fault or Oog, a next_step or n_steps call
\* returns false and leaves program counter, gas, registers, RAM, status,
\* exit_arg and the accumulation context as they were.
C1_TerminalAbsorbing ==
    [][lastOp'.op \in StepOps /\ state.status \in TerminalStatuses
          => /\ ~aborted' /\ ~lastOp'.returned
             /\ state'.program_counter = state.program_counter
             /\ state'.gas_left = state.gas_left
             /\ state'.registers = state.registers
             /\ state'.ram = state.ram
             /\ state'.status = state.status
             /\ state'.exit_arg = state.exit_arg
             /\ AccumulationContext(state') = AccumulationContext(state)]_vars

\* Natural numbers below 2^80 as five limbs of 16 bits, least significant first
Limbs64(u) ==
    <<u[2] % 65536, (u[2] \div 65536) % 65536,
      u[1] % 65536, (u[1] \div 65536) % 65536, 0>>

Carried(l) ==
    LET s2 == l[2] + l[1] \div 65536
        s3 == l[3] + s2 \div 65536
        s4 == l[4] + s3 \div 65536
        s5 == l[5] + s4 \div 65536
    IN  <<l[1] % 65536, s2 % 65536, s3 % 65536, s4 % 65536, s5>>

BigAdd(a, b) == Carried([i \in 1..5 |-> a[i] + b[i]])

BigTimes(k, a) == Carried([i \in 1..5 |-> k * a[i]])

BigLe(a, b) ==
    LET differ == {i \in 1..5 : a[i] # b[i]}
    IN  differ = {} \/ a[-SetMin({-i : i \in differ})] < b[-SetMin({-i : i \in differ})]

\* balance >= max(0, 100 + 10 * items + 1 * octets - gratis), over the naturals
MinBalanceKept(account) ==
    BigLe(BigAdd(BigAdd(Limbs64(U64(100)), BigTimes(10, Limbs64(U64(account.items)))),
                 BigTimes(1, Limbs64(account.octets))),
          BigAdd(Limbs64(account.balance), Limbs64(account.gratis)))

\* C2: from a ledger in which every account holds its minimum balance, every
\* account of the ledger holds balance >= max(0, 100 + 10*items + octets -
\* gratis) after any sequence of host calls.
C2_MinBalance ==
    IsSome(state.accumulation_accounts)
        => \A id \in DOMAIN Unwrap(state.accumulation_accounts) :
               MinBalanceKept(Unwrap(state.accumulation_accounts)[id])

\* implications is the regular implication of s as it stands: the accounts of
\* the ledger, the partial state, nextfreeid, the transfers recorded so far,
\* the provisions and the yield hash
SnapshotOf(implications, s) ==
    LET regular == Unwrap(s.accumulation_implications_regular)
        accounts == Unwrap(s.accumulation_accounts)
        entries == implications.state.accounts
    IN  /\ implications.id = regular.id
        /\ implications.nextfreeid = s.accumulation_nextfreeid
        /\ implications.xfers = regular.xfers \o s.accumulation_pending_xfers
        /\ implications.provisions = s.accumulation_provisions
        /\ implications.yield_hash = s.yield_hash
        /\ Len(entries) = Cardinality(DOMAIN accounts)
        /\ {entries[i] : i \in 1..Len(entries)}
               = {[service_id |-> id[2], account |-> accounts[id]] :
                      id \in DOMAIN accounts}
        /\ [implications.state EXCEPT !.accounts = <<>>]
               = [s.accumulation_regular_state EXCEPT !.accounts = <<>>]

\* C3: the set-up of an accumulation makes the exceptional implication the one
\* supplied; a CHECKPOINT host call that returns during the accumulation makes
\* it the regular implication as it then stands; every other step leaves the
\* exceptional implication as it was (the one supplied, or the last snapshot).
C3_Checkpoint ==
    [][/\ (/\ lastOp'.op = "setup_accumulate_invocation" /\ state'.status = "Ok"
           /\ IsSome(lastOp'.context))
             => state'.accumulation_implications_exceptional
                    = Some(Unwrap(lastOp'.context).exceptional)
       /\ lastOp'.op = "next_step" /\ ~aborted'
             => IF /\ lastOp'.host = FUNC_CHECKPOINT /\ lastOp'.returned
                   /\ state.has_accumulation_context
                   /\ IsSome(state.accumulation_implications_regular)
                THEN /\ IsSome(state'.accumulation_implications_exceptional)
                     /\ SnapshotOf(
                            Unwrap(state'.accumulation_implications_exceptional),
                            state')
                ELSE state'.accumulation_implications_exceptional
                         = state.accumulation_implications_exceptional]_vars

C3_Witness ==
    /\ lastOp.op = "next_step" /\ lastOp.host = FUNC_CHECKPOINT /\ lastOp.returned
    /\ IsSome(state.accumulation_implications_exceptional)
    /\ Len(Unwrap(state.accumulation_implications_exceptional).xfers) > 0

\* C4: a host call that returns FULL or CASH in r7 leaves the accumulation
\* context exactly as it was before the call.
C4_NoPartialWrites ==
    [][(/\ lastOp'.op = "next_step" /\ lastOp'.host >= 0 /\ lastOp'.returned
        /\ state'.registers[8] \in {REG_FULL, REG_CASH})
          => AccumulationContext(state') = AccumulationContext(state)]_vars

C4_Witness ==
    /\ lastOp.op = "next_step" /\ lastOp.host \in {FUNC_WRITE, FUNC_NEW, FUNC_TRANSFER}
    /\ lastOp.returned
    /\ state.registers[8] \in {REG_FULL, REG_CASH}

\* C5: an executed instruction costs 1 gas; an ECALLI step after which
\* execution continues costs 11, plus the gas limit of a successful TRANSFER;
\* no other step changes gas; with fewer than 10 gas left at dispatch the step
\* ends Oog and the host function has had no effect.
C5_GasSchedule ==
    [][lastOp'.op = "next_step" /\ ~aborted'
          => LET before == U64(state.gas_left)
                 after == U64(state'.gas_left)
                 host == lastOp'.host
                 limit == IF host = FUNC_TRANSFER /\ state'.registers[8] = REG_OK
                          THEN state.registers[10] ELSE <<0, 0>>
             IN  /\ host >= 0 /\ lastOp'.returned
                        => after = U64WrapSub(U64WrapSub(before, U64(11)), limit)
                 /\ host >= 0 /\ ~lastOp'.returned
                        => after \in {U64WrapSub(before, U64(1)),
                                      U64WrapSub(before, U64(11))}
                 /\ host >= 0 /\ U32Lt(state.gas_left, 11)
                        => /\ state'.status = "Oog" /\ ~lastOp'.returned
                           /\ state'.registers = state.registers
                           /\ AccumulationContext(state') = AccumulationContext(state)
                 /\ host < 0 /\ Executes(state) => after = U64WrapSub(before, U64(1))
                 /\ ~Executes(state) => after = before]_vars

\* C6: a step that returns true leaves less gas than it found; no step leaves
\* more.
C6_GasMonotone ==
    [][lastOp'.op \in StepOps /\ ~aborted'
          => /\ U32Le(state'.gas_left, state.gas_left)
             /\ lastOp'.returned /\ lastOp'.steps > 0
                    => U32Lt(state'.gas_left, state.gas_left)]_vars

C6_Witness ==
    /\ lastOp.op = "next_step" /\ lastOp.host = FUNC_TRANSFER /\ lastOp.returned
    /\ state.registers[8] = REG_OK
    /\ U32Lt(state.gas_left + 11, lastOp.gas)

JumpOpcodes == {OPCODE_JUMP, OPCODE_JUMP_IND, OPCODE_LOAD_IMM_JUMP,
                OPCODE_LOAD_IMM_JUMP_IND}

BranchOpcodes == {OPCODE_BRANCH_EQ_IMM, OPCODE_BRANCH_NE_IMM}

\* t starts a basic block of the program of s
ValidTarget(s, t) ==
    /\ t >= 0 /\ t < Len(s.code) /\ s.bitmask[t + 1] = 1
    /\ \/ t = 0
       \/ \E i \in 0..(t - 1) :
             /\ s.bitmask[i + 1] = 1
             /\ is_termination_instruction(s.code[i + 1])
             /\ i + 1 + skip(i, s.bitmask) = t

\* the branch at the program counter of s finds its condition true
BranchTaken(s) ==
    LET pc == s.program_counter
        operand == s.code[pc + 2]
        length_x == Clamp04((operand \div 16) % 8)
        immediate_x == get_immediate_value(
                           SubSeq(s.code, pc + 2, pc + 1 + skip(pc, s.bitmask)),
                           1, length_x)
        equal == s.registers[get_register_index(operand) + 1] = immediate_x
    IN  equal = (s.code[pc + 1] = OPCODE_BRANCH_EQ_IMM)

\* C7: after a step in which a jump or a taken branch succeeds, the program
\* counter is a valid target: within the code, on an instruction start, and 0
\* or one past a block terminator; a jump that does not succeed ends the step
\* without moving the program counter, and never in Fault.
C7_BasicBlocks ==
    [][(/\ lastOp'.op = "next_step" /\ ~aborted' /\ Executes(state)
        /\ state.code[state.program_counter + 1] \in JumpOpcodes \cup BranchOpcodes)
          => IF lastOp'.returned
             THEN \/ ValidTarget(state', state'.program_counter)
                  \/ /\ state.code[state.program_counter + 1] \in BranchOpcodes
                     /\ ~BranchTaken(state)
             ELSE /\ state'.status # "Fault"
                  /\ state'.program_counter = state.program_counter]_vars

\* a required range of the host call at the program counter is not readable
Unreadable(s, address, count) ==
    LET read_result == read_octets(s.ram, address, count)
    IN  ~read_result.abort /\ ReadFailed(read_result)

RequiredUnreadable(s) ==
    LET id == HostCallAt(s)
        R(i) == s.registers[i + 1][2]
    IN  CASE id = FUNC_TRANSFER -> Unreadable(s, R(10), C_MEMO_SIZE)
          [] id = FUNC_ASSIGN ->
                 Unreadable(s, R(8), C_AUTH_QUEUE_SIZE * AUTH_ENTRY_SIZE)
          [] id \in {FUNC_NEW, FUNC_SOLICIT, FUNC_FORGET} -> Unreadable(s, R(7), 32)
          [] id = FUNC_EJECT -> Unreadable(s, R(8), 32)
          [] id = FUNC_WRITE ->
                 \/ Unreadable(s, R(7), R(8))
                 \/ s.registers[11] # <<0, 0>> /\ Unreadable(s, R(9), R(10))
          [] id = FUNC_READ -> Unreadable(s, R(8), R(9))
          [] id = FUNC_PROVIDE -> Unreadable(s, R(8), R(9))
          [] OTHER -> FALSE

\* C9: a host call whose required memory range is not readable ends the step
\* in Panic, with r7 and the accumulation context as they were.
C9_UnreadablePanics ==
    [][(/\ lastOp'.op = "next_step" /\ ~aborted' /\ lastOp'.host >= 0
        /\ ~U32Lt(state.gas_left, 11) /\ RequiredUnreadable(state))
          => /\ ~lastOp'.returned /\ state'.status = "Panic"
             /\ state'.registers[8] = state.registers[8]
             /\ AccumulationContext(state') = AccumulationContext(state)]_vars

\* C10: no call ends in a runtime panic.
C10_NoRuntimePanic == aborted = FALSE


-----------------------------------------------------------------------------
(* Properties of the accumulation host functions.                          *)

\* the step at the program counter dispatches host function `id` with the gas
\* of the base charge in hand
Dispatches(s, id) == HostCallAt(s) = id /\ ~U32Lt(s.gas_left, 11)

\* the caller and the destination exist, the gas limit covers the
\* destination's minmemogas, and the caller keeps its minimum balance
TransferPermitted(s) ==
    LET accounts == Unwrap(s.accumulation_accounts)
        caller == Unwrap(s.accumulation_service_id)
        dest == s.registers[8]
        amount == s.registers[9]
        gas_limit == s.registers[10]
    IN  /\ IsSome(s.accumulation_accounts) /\ IsSome(s.accumulation_service_id)
        /\ caller \in DOMAIN accounts /\ dest \in DOMAIN accounts
        /\ ~U64Lt(gas_limit, accounts[dest].minmemogas)
        /\ ~U64Lt(accounts[caller].balance, amount)
        /\ MinBalanceKept([accounts[caller] EXCEPT !.balance = U64WrapSub(@, amount)])

\* C11: a TRANSFER whose memo is readable answers OK exactly when the caller
\* and the destination exist, the gas limit is at least the destination's
\* minmemogas and balance - amount is at least the caller's minimum balance.
\* On OK the caller's balance is less by the amount and no other account is
\* changed, the transfer {caller, dest, amount, memo, gas limit} is appended
\* to the transfers recorded, and the gas is less by the step's 11 and the gas
\* limit, or 0 where the gas limit is more than what is left.
C11_Transfer ==
    [][(/\ lastOp'.op = "next_step" /\ ~aborted' /\ Dispatches(state, FUNC_TRANSFER)
        /\ ~RequiredUnreadable(state))
          => LET accounts == Unwrap(state.accumulation_accounts)
                 caller == Unwrap(state.accumulation_service_id)
                 dest == state.registers[8]
                 amount == state.registers[9]
                 gas_limit == state.registers[10]
                 memo == Unwrap(read_octets(state.ram, state.registers[11][2],
                                            C_MEMO_SIZE).data)
                 charged == U64(state.gas_left - 11)
             IN  /\ (state'.registers[8] = REG_OK) <=> TransferPermitted(state)
                 /\ state'.registers[8] = REG_OK
                      => /\ lastOp'.returned
                         /\ state'.accumulation_accounts =
                                Some([accounts EXCEPT
                                         ![caller].balance = U64WrapSub(@, amount)])
                         /\ state'.accumulation_pending_xfers =
                                Append(state.accumulation_pending_xfers,
                                       [source |-> caller[2], dest |-> dest[2],
                                        amount |-> amount, memo |-> memo,
                                        gas_limit |-> gas_limit])
                         /\ state'.gas_left =
                                IF U64Lt(charged, gas_limit) THEN 0
                                ELSE state.gas_left - 11 - gas_limit[2]]_vars

\* the step from s to t, recorded as `op`, is a NEW answered with an id
NewAnswered(s, t, op) ==
    /\ op.op = "next_step" /\ op.returned /\ Dispatches(s, FUNC_NEW)
    /\ t.registers[8][1] = 0

\* C12: a NEW that answers with an id has added one account under that id,
\* with the code hash read from memory, octets 81 + the expected code length,
\* items 2, the minimum balance of that footprint as its balance, the caller
\* as parent and one request, keyed by the code hash and the expected code
\* length, that holds the empty list of timeslots; the caller's balance is
\* less by the new account's balance and nothing else of the ledger changed.
C12_New ==
    [][NewAnswered(state, state', lastOp') /\ ~aborted'
          => LET accounts == Unwrap(state.accumulation_accounts)
                 after == Unwrap(state'.accumulation_accounts)
                 caller == Unwrap(state.accumulation_service_id)
                 id == state'.registers[8]
                 code_hash == Unwrap(read_octets(state.ram, state.registers[8][2],
                                                 32).data)
                 length == state.registers[9]
                 gratis == state.registers[12]
                 octets == U64WrapAdd(U64(81), length)
                 deposit == U64WrapAdd(U64(100 + 10 * 2), octets)
                 balance == IF U64Lt(deposit, gratis) THEN <<0, 0>>
                            ELSE U64WrapSub(deposit, gratis)
             IN  /\ id \notin DOMAIN accounts
                 /\ DOMAIN after = DOMAIN accounts \cup {id}
                 /\ after[id].codehash = code_hash
                 /\ after[id].octets = octets
                 /\ after[id].items = 2
                 /\ after[id].balance = balance
                 /\ after[id].parent = caller[2]
                 /\ Len(after[id].raw_csh_keyvals) = 1
                 /\ after[id].raw_csh_keyvals[1][1]
                        = create_request_key(id[2], code_hash, length)
                 /\ decode_request_timeslots(after[id].raw_csh_keyvals[1][2])
                        = Some(<<>>)
                 /\ ~U64Lt(accounts[caller].balance, balance)
                 /\ after[caller] = [accounts[caller] EXCEPT
                                        !.balance = U64WrapSub(@, balance)]
                 /\ \A other \in DOMAIN accounts \ {caller} :
                        after[other] = accounts[other]]_vars

C12_Witness ==
    /\ lastOp.op = "next_step" /\ lastOp.host = FUNC_NEW /\ lastOp.returned
    /\ state.registers[8][1] = 0 /\ state.registers[12] # <<0, 0>>
    /\ state.registers[8] \in DOMAIN Unwrap(state.accumulation_accounts)
    /\ Unwrap(state.accumulation_accounts)[state.registers[8]].balance = <<0, 0>>

RequestOf(accounts, id, hash, length) ==
    LET value == raw_get(accounts[id].raw_csh_keyvals,
                         create_request_key(id[2], hash, length))
    IN  IF IsSome(value) THEN decode_request_timeslots(Unwrap(value)) ELSE None

\* y + the expunge period < the current timeslot
Expired(s, y) ==
    /\ IsSome(s.timeslot) /\ IsSome(s.accumulation_fetch_config)
    /\ U64Lt(U64WrapAdd(U64(y), U64(Unwrap(s.accumulation_fetch_config)
                                        .preimage_expunge_period)),
             Unwrap(s.timeslot))

\* the target is another account whose code hash is the caller's id, with two
\* items and a request for (hash, octets - 81) that holds [x, y], y expired
EjectPermitted(s) ==
    LET accounts == Unwrap(s.accumulation_accounts)
        caller == Unwrap(s.accumulation_service_id)
        target == s.registers[8]
        hash == Unwrap(read_octets(s.ram, s.registers[9][2], 32).data)
        slot == RequestOf(accounts, target, hash,
                          U64WrapSub(accounts[target].octets, U64(81)))
    IN  /\ IsSome(s.accumulation_accounts) /\ IsSome(s.accumulation_service_id)
        /\ target # caller /\ target \in DOMAIN accounts /\ caller \in DOMAIN accounts
        /\ accounts[target].codehash = encode_fixed_length(caller, 32)
        /\ accounts[target].items = 2
        /\ ~U64Lt(accounts[target].octets, U64(81))
        /\ IsSome(slot) /\ Len(Unwrap(slot)) = 2 /\ Expired(s, Unwrap(slot)[2])

\* C14: an EJECT that is not permitted leaves the ledger as it was and answers
\* WHO or HUH; an EJECT that takes the target out of the ledger was permitted
\* and has added the target's balance to the caller's, nothing else changed.
C14_Eject ==
    [][(/\ lastOp'.op = "next_step" /\ ~aborted' /\ Dispatches(state, FUNC_EJECT)
        /\ ~RequiredUnreadable(state))
          => LET accounts == Unwrap(state.accumulation_accounts)
                 caller == Unwrap(state.accumulation_service_id)
                 target == state.registers[8]
             IN  IF EjectPermitted(state)
                 THEN state'.accumulation_accounts # state.accumulation_accounts
                        => state'.accumulation_accounts =
                               Some([id \in DOMAIN accounts \ {target} |->
                                        IF id = caller
                                        THEN [accounts[id] EXCEPT !.balance =
                                                 U64WrapAdd(@, accounts[target].balance)]
                                        ELSE accounts[id]])
                 ELSE /\ state'.accumulation_accounts = state.accumulation_accounts
                      /\ state'.registers[8] \in {REG_WHO, REG_HUH}]_vars

\* C15: FORGET of (h, z) by the caller, t being the current timeslot.  A
\* request that holds [] is deleted with its preimage, items less by 2 and
\* octets by 81 + z; [x] becomes [x, t]; [x, y] is deleted in the same way if
\* y has expired; [x, y, w] becomes [w, t] if y has expired.  Every other
\* case answers HUH and leaves the ledger as it was.  The list is the one a
\* later call reads back from the request.
C15_Forget ==
    [][(/\ lastOp'.op = "next_step" /\ ~aborted' /\ Dispatches(state, FUNC_FORGET)
        /\ ~RequiredUnreadable(state)
        /\ IsSome(state.accumulation_accounts) /\ IsSome(state.accumulation_service_id)
        /\ Unwrap(state.accumulation_service_id) \in
               DOMAIN Unwrap(state.accumulation_accounts))
          => LET accounts == Unwrap(state.accumulation_accounts)
                 after == Unwrap(state'.accumulation_accounts)
                 caller == Unwrap(state.accumulation_service_id)
                 hash == Unwrap(read_octets(state.ram, state.registers[8][2], 32).data)
                 length == state.registers[9]
                 t == Unwrap(state.timeslot)[2]
                 slot == RequestOf(accounts, caller, hash, length)
                 list == Unwrap(slot)
                 Huh == /\ state'.registers[8] = REG_HUH
                        /\ state'.accumulation_accounts = state.accumulation_accounts
                 Deleted ==
                     /\ state'.registers[8] = REG_OK
                     /\ raw_get(after[caller].raw_csh_keyvals,
                                create_request_key(caller[2], hash, length)) = None
                     /\ raw_get(after[caller].raw_csh_keyvals,
                                create_preimage_key(caller[2], hash)) = None
                     /\ after[caller].items = accounts[caller].items - 2
                     /\ after[caller].octets =
                            U64WrapSub(accounts[caller].octets,
                                       U64WrapAdd(U64(81), length))
                 Becomes(new_list) ==
                     /\ state'.registers[8] = REG_OK
                     /\ RequestOf(after, caller, hash, length) = Some(new_list)
                     /\ after[caller].items = accounts[caller].items
                     /\ after[caller].octets = accounts[caller].octets
             IN  CASE ~IsSome(slot) -> Huh
                   [] IsSome(slot) /\ Len(list) = 0 -> Deleted
                   [] IsSome(slot) /\ Len(list) = 1 -> Becomes(<<list[1], t>>)
                   [] IsSome(slot) /\ Len(list) = 2 ->
                          IF Expired(state, list[2]) THEN Deleted ELSE Huh
                   [] IsSome(slot) /\ Len(list) = 3 ->
                          IF Expired(state, list[2]) THEN Becomes(<<list[3], t>>)
                          ELSE Huh
                   [] OTHER -> Huh]_vars

\* the caller of s has an account in the ledger
CallerKnown(s) ==
    /\ IsSome(s.accumulation_accounts) /\ IsSome(s.accumulation_service_id)
    /\ Unwrap(s.accumulation_service_id) \in DOMAIN Unwrap(s.accumulation_accounts)

\* C16: SOLICIT of (h, z) by a caller of the ledger.  Without a request for
\* (h, z) the call adds one that holds [], with items more by 2 and octets by
\* 81 + z, and answers OK; a request that holds [x, y] comes to hold [x, y, t]
\* with items and octets as they were, and the answer is OK; a request in any
\* other state answers HUH.  Where the footprint would pass 2^64 or the
\* minimum balance of the new footprint the balance, the call answers FULL
\* and changes nothing.
C16_Solicit ==
    [][(/\ lastOp'.op = "next_step" /\ ~aborted' /\ Dispatches(state, FUNC_SOLICIT)
        /\ ~RequiredUnreadable(state) /\ CallerKnown(state) /\ IsSome(state.timeslot))
          => LET accounts == Unwrap(state.accumulation_accounts)
                 after == Unwrap(state'.accumulation_accounts)
                 caller == Unwrap(state.accumulation_service_id)
                 account == accounts[caller]
                 hash == Unwrap(read_octets(state.ram, state.registers[8][2], 32).data)
                 length == state.registers[9]
                 t == Unwrap(state.timeslot)[2]
                 value == raw_get(account.raw_csh_keyvals,
                                  create_request_key(caller[2], hash, length))
                 slot == RequestOf(accounts, caller, hash, length)
                 increment == U64WrapAdd(U64(81), length)
                 overflows == \/ U64AddOverflows(U64(81), length)
                              \/ U64AddOverflows(account.octets, increment)
                 grown == [account EXCEPT !.items = @ + 2,
                                          !.octets = U64WrapAdd(@, increment)]
                 Unchanged ==
                     state'.accumulation_accounts = state.accumulation_accounts
                 Holds(list, footprint) ==
                     /\ state'.registers[8] = REG_OK
                     /\ RequestOf(after, caller, hash, length) = Some(list)
                     /\ after[caller].items = footprint.items
                     /\ after[caller].octets = footprint.octets
                     /\ after[caller].balance = account.balance
             IN  CASE ~IsSome(value) ->
                          IF overflows \/ ~MinBalanceKept(grown)
                          THEN state'.registers[8] = REG_FULL /\ Unchanged
                          ELSE Holds(<<>>, grown)
                   [] IsSome(value) /\ IsSome(slot) /\ Len(Unwrap(slot)) = 2 ->
                          IF ~MinBalanceKept(account)
                          THEN state'.registers[8] = REG_FULL /\ Unchanged
                          ELSE Holds(Unwrap(slot) \o <<t>>, account)
                   [] OTHER -> state'.registers[8] = REG_HUH /\ Unchanged]_vars

\* C17: a SOLICIT of (h, z) that finds no request for it, followed at once by
\* FORGET of the same (h, z).  With the balance to cover the new footprint the
\* SOLICIT answers OK and leaves items more by 2 and octets by 81 + z, the
\* FORGET answers OK and the caller's account, its items, octets and raw
\* key-value map, is what it was before the SOLICIT; without that balance the
\* SOLICIT answers FULL.
C17_SolicitForget ==
    [][(/\ lastOp'.op = "n_steps" /\ lastOp'.steps = 3 /\ ~aborted'
        /\ Dispatches(state, FUNC_SOLICIT) /\ ~RequiredUnreadable(state)
        /\ CallerKnown(state))
          => LET accounts == Unwrap(state.accumulation_accounts)
                 caller == Unwrap(state.accumulation_service_id)
                 account == accounts[caller]
                 hash == Unwrap(read_octets(state.ram, state.registers[8][2], 32).data)
                 length == state.registers[9]
                 value == raw_get(account.raw_csh_keyvals,
                                  create_request_key(caller[2], hash, length))
                 increment == U64WrapAdd(U64(81), length)
                 grown == [account EXCEPT !.items = @ + 2,
                                          !.octets = U64WrapAdd(@, increment)]
                 \* solicited: the state the SOLICIT step leaves; loaded: the
                 \* state the step after it leaves
                 Cycle(solicited, loaded) ==
                     (/\ ~IsSome(value)
                      /\ HostCallAt(loaded) = FUNC_FORGET
                      /\ loaded.registers[8][2] = state.registers[8][2]
                      /\ loaded.registers[9] = length)
                       => IF MinBalanceKept(grown)
                          THEN /\ solicited.registers[8] = REG_OK
                               /\ Unwrap(solicited.accumulation_accounts)[caller].items
                                      = account.items + 2
                               /\ Unwrap(solicited.accumulation_accounts)[caller].octets
                                      = grown.octets
                               /\ state'.registers[8] = REG_OK
                               /\ Unwrap(state'.accumulation_accounts)[caller] = account
                          ELSE /\ solicited.registers[8] = REG_FULL
                               /\ solicited.accumulation_accounts
                                      = state.accumulation_accounts
                 After(solicited) == Cycle(solicited, next_step_impl(solicited).state)
             IN  After(next_step_impl(state).state)]_vars

\* C18: PROVIDE of a readable preimage for service s, the caller where r7 is
\* 2^64 - 1.  An answer of OK appends the one entry (s, preimage) to the
\* provisions and leaves the entries before it as they were, in their order;
\* where s has no account the answer is WHO; where (s, preimage) is among the
\* provisions already, or s has no request for (blake2b-256(preimage), length),
\* the answer is HUH; WHO and HUH change nothing.
C18_Provide ==
    [][(/\ lastOp'.op = "next_step" /\ ~aborted' /\ Dispatches(state, FUNC_PROVIDE)
        /\ ~RequiredUnreadable(state) /\ state.has_accumulation_context
        /\ IsSome(state.accumulation_accounts) /\ IsSome(state.accumulation_service_id))
          => LET accounts == Unwrap(state.accumulation_accounts)
                 s == IF state.registers[8] = <<-1, -1>>
                      THEN Unwrap(state.accumulation_service_id) ELSE state.registers[8]
                 length == state.registers[10]
                 preimage == Unwrap(read_octets(state.ram, state.registers[9][2],
                                                length[2]).data)
                 provisions == state.accumulation_provisions
                 entry == [service_id |-> s[2], blob |-> preimage]
                 present == \E i \in 1..Len(provisions) : provisions[i] = entry
                 requested == IsSome(raw_get(accounts[s].raw_csh_keyvals,
                                             create_request_key(s[2], blake2b256(preimage),
                                                                length)))
                 Unchanged == AccumulationContext(state') = AccumulationContext(state)
             IN  /\ lastOp'.returned
                 /\ state'.registers[8] = REG_OK
                        => /\ state'.accumulation_provisions = Append(provisions, entry)
                           /\ state'.accumulation_accounts = state.accumulation_accounts
                 /\ s \notin DOMAIN accounts
                        => state'.registers[8] = REG_WHO /\ Unchanged
                 /\ s \in DOMAIN accounts /\ (present \/ ~requested)
                        => state'.registers[8] = REG_HUH /\ Unchanged]_vars

StorageOf(accounts, id, key) ==
    raw_get(accounts[id].raw_csh_keyvals, create_storage_key(id[2], key))

\* the call answers `value`'s length and has `value` at address `out`
ReadsBack(registers, ram, out, value) ==
    /\ registers[8] = U64(Len(value))
    /\ read_octets(ram, out, Len(value)).data = Some(value)

\* C20: a WRITE of the caller's that returns without FULL answers in r7 the
\* length of what the key held, or NONE where it held nothing; in the state it
\* leaves, a READ by the caller of the whole of that key to a writable range
\* answers the length of the value written and copies the value there, or
\* answers NONE where the value written was empty.  Any READ of the caller's
\* own key, from offset 0 and for no less than the value's length, answers so
\* for what the ledger holds under the key.
C20_WriteRead ==
    [][(/\ lastOp'.op = "next_step" /\ ~aborted' /\ lastOp'.returned
        /\ CallerKnown(state) /\ ~RequiredUnreadable(state))
          => LET caller == Unwrap(state.accumulation_service_id)
                 accounts == Unwrap(state.accumulation_accounts)
                 R(i) == state.registers[i + 1]
                 Octets(address, count) ==
                     Unwrap(read_octets(state.ram, address[2], count[2]).data)
                 Writable(ram, out, value) == ~write_octets(ram, out, value).has_fault
                 stack == STACK_SEGMENT_END - PAGE_SIZE
                 \* READ of the key of the WRITE in the state the WRITE leaves
                 Read(length) ==
                     ReadHostFunction(HostFunctionContext(
                         [state' EXCEPT !.registers =
                             [@ EXCEPT ![8] = REG_NONE, ![9] = R(7), ![10] = R(8),
                                       ![11] = U64(stack), ![12] = <<0, 0>>,
                                       ![13] = length]]))
                 Written(key, value) ==
                     /\ state'.registers[8]
                            = (IF IsSome(StorageOf(accounts, caller, key))
                               THEN U64(Len(Unwrap(StorageOf(accounts, caller, key))))
                               ELSE REG_NONE)
                     /\ \A length \in {U64(Len(value)), <<-1, -1>>} :
                            IF Len(value) = 0 THEN Reg(Read(length), 7) = REG_NONE
                            ELSE Writable(state'.ram, stack, value)
                                     => /\ Read(length).result_code = HOST_RESULT_CONTINUE
                                        /\ ReadsBack(Read(length).registers,
                                                     Read(length).ram, stack, value)
                 Answered(stored) ==
                     IF ~IsSome(stored) THEN state'.registers[8] = REG_NONE
                     ELSE (/\ ~U64Lt(R(12), U64(Len(Unwrap(stored))))
                           /\ Writable(state.ram, R(10)[2], Unwrap(stored)))
                              => ReadsBack(state'.registers, state'.ram, R(10)[2],
                                           Unwrap(stored))
             IN  /\ (Dispatches(state, FUNC_WRITE) /\ state'.registers[8] # REG_FULL)
                        => Written(Octets(R(7), R(8)),
                                   IF R(10) = <<0, 0>> THEN <<>> ELSE Octets(R(9), R(10)))
                 /\ (/\ Dispatches(state, FUNC_READ) /\ R(7) \in {REG_NONE, caller}
                     /\ R(11) = <<0, 0>>)
                        => Answered(StorageOf(accounts, caller, Octets(R(8), R(9))))]_vars


-----------------------------------------------------------------------------
(* Properties of the codec, of the set-up and of the results of a run.     *)

\* C21: decode_implications_pair of the encoding of a valid pair returns the
\* pair, having read the whole encoding, and encode_implications_pair of what
\* is decoded from a valid encoding returns that encoding: transfers and
\* provisions present, always-accumulator gas of the full 64 bits.
C21_ImplicationsRoundTrip ==
    /\ (lastOp.op = "decode_implications_pair" /\ lastOp.of = "encoding")
          => lastOp.decoded = Some([value |-> lastOp.pair, consumed |-> Len(lastOp.data)])
    /\ (lastOp.op = "decode_implications_pair" /\ lastOp.of = "blob")
          => IsSome(lastOp.decoded)
    /\ (lastOp.op = "encode_implications_pair" /\ lastOp.of = "decoded")
          => lastOp.encoded = lastOp.data


\* the service ids of the account entries at the head of an encoded partial
\* state, in the order of the encoding
EncodedAccountIds(data, num_validators) ==
    LET decoded == decode_partial_state(data, 2, num_validators, 0)
    IN  IF ~IsSome(decoded) THEN None
        ELSE Some([i \in 1..Len(Unwrap(decoded).value.accounts) |->
                      Unwrap(decoded).value.accounts[i].service_id])

StrictlyAscending(ids) ==
    /\ IsSome(ids)
    /\ \A i \in 1..Len(Unwrap(ids)) - 1 : U32Lt(Unwrap(ids)[i], Unwrap(ids)[i + 1])

\* the octets the regular implications of the state take in an encoding
RegularLength(s, num_validators) ==
    Len(encode_implications(Unwrap(build_current_regular_implications(s)),
                            2, num_validators, 0))

\* C22: in every encoded implications pair get_accumulation_context_encoded
\* returns, the account entries of the regular and of the exceptional
\* partial state are strictly ascending by service id.
C22_AccountOrder ==
    (lastOp.op = "get_accumulation_context_encoded" /\ IsSome(lastOp.returned))
        => \E num_validators \in {0, 1} :
               LET data == Unwrap(lastOp.returned)
                   offset == RegularLength(state, num_validators)
               IN  /\ data = Unwrap(get_accumulation_context_encoded(
                                        state, 2, num_validators, 0))
                   /\ StrictlyAscending(EncodedAccountIds(Drop(data, 4), num_validators))
                   /\ StrictlyAscending(EncodedAccountIds(Drop(data, offset + 4), num_validators))

\* the set-up recorded was given a preimage, a blob or a context that cannot
\* be decoded
Undecodable(record) ==
    /\ record.op = "setup_accumulate_invocation"
    /\ ~record.decodable \/ ~IsSome(record.context)

\* C23: a set-up whose preimage, blob or implications pair cannot be decoded
\* reports failure and leaves the status Panic and the engine without code
\* and without accumulation context, and the step that follows it executes
\* no instruction: next_step returns false, and registers, program counter,
\* gas and RAM are left as they were.
C23_SetupFailure ==
    [][/\ Undecodable(lastOp')
           => /\ ~lastOp'.returned
              /\ state'.status = "Panic"
              /\ state'.code = <<>>
              /\ ~state'.has_accumulation_context
       /\ (Undecodable(lastOp) /\ lastOp'.op \in StepOps)
           => /\ lastOp'.op = "next_step" => ~lastOp'.returned
              /\ state'.registers = state.registers
              /\ state'.program_counter = state.program_counter
              /\ state'.gas_left = state.gas_left
              /\ state'.ram = state.ram]_vars

DynamicJumpOpcodes == {OPCODE_JUMP_IND, OPCODE_LOAD_IMM_JUMP_IND}

\* the step at the program counter of s executes a dynamic jump
DynamicJumpAt(s) ==
    Executes(s) /\ s.code[s.program_counter + 1] \in DynamicJumpOpcodes

\* a = (reg_B + imm) mod 2^32 of the dynamic jump at the program counter of s
DynamicJumpAddress(s) ==
    LET pc == s.program_counter
        fskip == skip(pc, s.bitmask)
        last == IF pc + 1 + fskip > Len(s.code) THEN Len(s.code) ELSE pc + 1 + fskip
        operands == SubSeq(s.code, pc + 2, last)
        length_x == Clamp04(operands[2] % 8)
    IN  IF s.code[pc + 1] = OPCODE_JUMP_IND
        THEN U32WrapAdd(s.registers[get_register_index(operands[1]) + 1][2],
                        get_immediate_value(operands, 1, Clamp04(fskip - 1))[2])
        ELSE U32WrapAdd(s.registers[get_register_b(operands) + 1][2],
                        get_immediate_value(operands, 2 + length_x,
                                            Clamp04(fskip - length_x - 2))[2])

\* a is non-zero and even, a/2 - 1 is an index of the jump table, and the
\* entry there starts a basic block
JumpTableTarget(s, a) ==
    /\ a > 0 /\ a % 2 = 0 /\ a \div 2 - 1 < Len(s.jump_table)
    /\ ValidTarget(s, s.jump_table[a \div 2])

\* C24: a step that executes JUMP_IND or LOAD_IMM_JUMP_IND with
\* a = (reg_B + imm) mod 2^32 ends in Halt if and only if a = 2^32 - 2^16;
\* otherwise it continues with the program counter at jumpTable[a/2 - 1] if a
\* is non-zero and even and that entry exists and starts a basic block, and
\* ends in Panic if not.
C24_DynamicJump ==
    [][(lastOp'.op = "next_step" /\ DynamicJumpAt(state))
          => LET a == DynamicJumpAddress(state)
             IN  IF a = HALT_ADDRESS
                 THEN ~lastOp'.returned /\ state'.status = "Halt"
                 ELSE IF JumpTableTarget(state, a)
                 THEN /\ lastOp'.returned
                      /\ state'.status = state.status /\ state'.status # "Halt"
                      /\ state'.program_counter = state.jump_table[a \div 2]
                 ELSE ~lastOp'.returned /\ state'.status = "Panic"]_vars

-----------------------------------------------------------------------------
(* Running off the end, the result buffer and the gas consumed.            *)

\* what prepare_blob and the accumulate set-up append to the program's code
CodePadding == 16

\* the program counter is beyond the last octet of the program's own code
OffTheEnd(s) ==
    \/ Len(s.code) < CodePadding
    \/ ~U32Lt(s.program_counter, Len(s.code) - CodePadding)

\* C26: a step taken with the program counter beyond the last octet of the
\* program's own, unpadded code (at entry, when the code is empty) ends the run
\* with status Halt, leaves the registers as they were, and the result is the
\* empty buffer when r8 = 0.
C26_RunOffTheEnd ==
    [][(lastOp'.op = "next_step" /\ ~aborted' /\ OffTheEnd(state)
            /\ state.status \notin TerminalStatuses)
          => /\ ~lastOp'.returned
             /\ state'.status = "Halt"
             /\ state'.registers = state.registers
             /\ state'.registers[9] = U64(0) => get_result(state').data = <<>>]_vars

\* the range [r7, r7 + r8) lies below 2^32 and each page of it can be read
ReadableRange(s) ==
    LET r7 == s.registers[8]
        r8 == s.registers[9]
    IN  /\ r7[1] = 0 /\ r8[1] = 0
        /\ ~U32AddOverflows(r7[2], r8[2]) \/ U32WrapAdd(r7[2], r8[2]) = 0
        /\ \A p \in OverlappingPages(r7[2], r8[2]) :
               get_page_access(s.ram, p) \in {"Read", "Write"}

\* C27: get_result after a halt returns the r8 octets of RAM at r7 when r8 > 0
\* and the whole of [r7, r7 + r8) is readable, and the empty buffer otherwise:
\* when r8 = 0, when a page of the range cannot be read, when r7 or r8 does not
\* fit 32 bits, and when the range runs past 2^32.
C27_ResultBuffer ==
    [][(lastOp'.op = "get_result" /\ state.status = "Halt")
          => /\ ~aborted'
             /\ lastOp'.returned =
                    IF state.registers[9] # U64(0) /\ ReadableRange(state)
                    THEN ReadBytes(state.ram, state.registers[8][2],
                                   state.registers[9][2])
                    ELSE <<>>]_vars

\* C28: the gas consumed that run_program reports is the gas the run started
\* with, which is the limit given at set-up or the value of the last
\* set_gas_left, less the gas that is left.
C28_GasConsumed ==
    [][lastOp'.op = "run_program"
          => lastOp'.returned.gas_consumed =
                 U32WrapSub(state.gas_left, state'.gas_left)]_vars

-----------------------------------------------------------------------------
(* Calls from several threads.                                             *)

\* the threads inside a section guarded by the lock
Holding == {t \in Threads : state.threads[t].at \in {"holding", "holding_again", "done"}}

\* C29: calls from several threads are serialised.  At most one thread is
\* inside the engine, and it is the holder of the lock; the lock is held by no
\* thread that is not inside a call; and what a call returns is what the call
\* returns when run alone on the engine as it stood at some moment between the
\* call and its return at which no other call was under way, so that the
\* outcome is that of some sequential order and no part of a step is seen.
C29_Serialised ==
    /\ Cardinality(Holding) <= 1
    /\ \A t \in Threads : t \in Holding <=> state.holder = t
    /\ state.holder = "none" <=> Holding = {}
    /\ lastOp.op # "none" => lastOp.returned \in lastOp.outcomes

-----------------------------------------------------------------------------
(* Erasure coding.                                                         *)

\* C30: decode of the shards encode made of a byte string d returns d, the
\* padding removed, from all n shards and from every subset of at least k of
\* them, whatever the length of d.
C30_ErasureRoundTrip ==
    lastOp.op = "decode" => lastOp.returned = Some(state.data)

-----------------------------------------------------------------------------
(* Properties of an accumulation as a whole.                               *)

RECURSIVE BigSum(_)
BigSum(amounts) ==
    IF amounts = <<>> THEN Limbs64(U64(0))
    ELSE BigAdd(Limbs64(Head(amounts)), BigSum(Tail(amounts)))

RECURSIVE Balances(_, _)
Balances(accounts, ids) ==
    IF ids = {} THEN <<>>
    ELSE LET id == CHOOSE id \in ids : TRUE
         IN  <<accounts[id].balance>> \o Balances(accounts, ids \ {id})

\* the balances of all accounts and the amounts of the transfers recorded
\* since set-up, summed over the naturals
Funds(s) ==
    LET accounts == Unwrap(s.accumulation_accounts)
    IN  BigAdd(BigSum(Balances(accounts, DOMAIN accounts)),
               BigSum([i \in 1..Len(s.accumulation_pending_xfers) |->
                           s.accumulation_pending_xfers[i].amount]))

\* C31: over every host call of an accumulation the sum of all account
\* balances and of the amounts of the deferred transfers recorded stays what
\* it was: nothing is lost, created or wrapped.
C31_FundsConserved ==
    [][(/\ lastOp'.op = "next_step" /\ lastOp'.host >= 0 /\ ~aborted'
        /\ IsSome(state.accumulation_accounts))
          => /\ IsSome(state'.accumulation_accounts)
             /\ Funds(state') = Funds(state)]_vars

\* s with the keys of its accounts, which are kept as pairs of a service id
\* and the octets hashed, written out as octets
WrittenOut(s) ==
    LET Account(account) ==
            [account EXCEPT !.raw_csh_keyvals =
                [i \in 1..Len(@) |-> <<LeBytes4(@[i][1][1]) \o @[i][1][2], @[i][2]>>]]
        Entries(entries) ==
            [i \in 1..Len(entries) |->
                [entries[i] EXCEPT !.account = Account(@)]]
        accounts == Unwrap(s.accumulation_accounts)
    IN  [s EXCEPT
            !.accumulation_accounts =
                IF IsSome(@) THEN Some([id \in DOMAIN accounts |-> Account(accounts[id])])
                ELSE @,
            !.accumulation_implications_exceptional =
                IF IsSome(@)
                THEN Some([Unwrap(@) EXCEPT !.state.accounts = Entries(@)])
                ELSE @]

\* the pair a reader of the context returned at s decodes, if any
ReturnedPair(s) ==
    LET encoded == get_accumulation_context_encoded(WrittenOut(s), 2, 0, 0)
        Decoded(decoded) == IF IsSome(decoded) THEN Some(Unwrap(decoded).value) ELSE None
    IN  IF IsSome(encoded) THEN Decoded(decode_implications_pair(Unwrap(encoded), 2, 0, 0))
        ELSE None

\* the transfer a TRANSFER at s records
TransferAt(s) ==
    [source |-> Unwrap(s.accumulation_service_id)[2], dest |-> s.registers[8][2],
     amount |-> s.registers[9],
     memo |-> Unwrap(read_octets(s.ram, s.registers[11][2], C_MEMO_SIZE).data),
     gas_limit |-> s.registers[10]]

\* C32: the regular transfer list of the context returned is the list supplied
\* at set-up followed by one entry for each successful TRANSFER, in the order
\* of the calls and each once, whatever CHECKPOINTs were taken; the
\* exceptional list is the regular list as it stood at the last CHECKPOINT.
C32_TransferList ==
    [][/\ (/\ lastOp'.op = "setup_accumulate_invocation" /\ lastOp'.returned
           /\ IsSome(lastOp'.context))
              => /\ IsSome(ReturnedPair(state'))
                 /\ Unwrap(ReturnedPair(state')).regular.xfers =
                        Unwrap(lastOp'.context).regular.xfers
                 /\ Unwrap(ReturnedPair(state')).exceptional.xfers =
                        Unwrap(lastOp'.context).exceptional.xfers
       /\ (/\ lastOp'.op = "next_step" /\ ~aborted' /\ IsSome(state.accumulation_accounts)
           /\ state.has_accumulation_context)
              => /\ IsSome(ReturnedPair(state)) /\ IsSome(ReturnedPair(state'))
                 /\ Unwrap(ReturnedPair(state')).regular.xfers =
                        IF lastOp'.host = FUNC_TRANSFER /\ state'.registers[8] = REG_OK
                        THEN Append(Unwrap(ReturnedPair(state)).regular.xfers,
                                    TransferAt(state))
                        ELSE Unwrap(ReturnedPair(state)).regular.xfers
                 /\ Unwrap(ReturnedPair(state')).exceptional.xfers =
                        IF lastOp'.host = FUNC_CHECKPOINT /\ lastOp'.returned
                        THEN Unwrap(ReturnedPair(state')).regular.xfers
                        ELSE Unwrap(ReturnedPair(state)).exceptional.xfers]_vars

ErrorSentinels == {REG_WHO, REG_HUH, REG_CORE, REG_LOW, REG_WHAT, REG_OOB}

\* C33: a host call that answers WHO, HUH, CORE, LOW, WHAT or OOB in r7 leaves
\* the accumulation context as it was before the call: accounts, partial
\* state, next free id, pending transfers, provisions and yield hash.
C33_ErrorLeavesContext ==
    [][(/\ lastOp'.op = "next_step" /\ lastOp'.host >= 0 /\ ~aborted'
        /\ Dispatches(state, lastOp'.host)
        /\ state'.registers[8] \in ErrorSentinels)
          => AccumulationContext(state') = AccumulationContext(state)]_vars

\* the address the jump or branch at the program counter of s names
TargetAt(s) ==
    LET pc == s.program_counter
        fskip == skip(pc, s.bitmask)
        last == IF pc + 1 + fskip > Len(s.code) THEN Len(s.code) ELSE pc + 1 + fskip
        operands == SubSeq(s.code, pc + 2, last)
        length_x == Clamp04((operands[1] \div 16) % 8)
        opcode == s.code[pc + 1]
    IN  IF opcode = OPCODE_JUMP THEN parse_one_offset(operands, fskip, pc)
        ELSE IF opcode \in DynamicJumpOpcodes
        THEN s.jump_table[DynamicJumpAddress(s) \div 2]
        ELSE IF opcode = OPCODE_LOAD_IMM_JUMP
        THEN pc + get_immediate_value(operands, 1 + length_x,
                                      Clamp04(fskip - length_x - 1))[2]
        ELSE pc + get_immediate_value(operands, 1 + length_x,
                                      Clamp04(Len(operands) - length_x - 1))[2]

\* the step at the program counter of s is a jump, or a branch whose
\* condition is true
Jumps(s) ==
    \/ s.code[s.program_counter + 1] \in JumpOpcodes
    \/ s.code[s.program_counter + 1] \in BranchOpcodes /\ BranchTaken(s)

\* C34: after a step that continues the program counter is the target of the
\* instruction if that was a jump or a branch whose condition was true, the
\* target being the instruction's own address included, and pc + 1 + Fskip(pc)
\* after every other instruction and after a host call.
C34_PcAdvance ==
    [][(lastOp'.op = "next_step" /\ ~aborted' /\ lastOp'.returned /\ Executes(state))
          => state'.program_counter =
                 IF Jumps(state) THEN TargetAt(state)
                 ELSE state.program_counter + 1
                          + skip(state.program_counter, state.bitmask)]_vars

\* the lowest-numbered page of the range that lacks the access the operation
\* needs (Write for a write, Read or Write for a read), or <<>> if none lacks it
LowestLacking(ram, address, count, writing) ==
    LET lacking == {p \in OverlappingPages(address, count) :
                       IF writing THEN get_page_access(ram, p) # "Write"
                       ELSE get_page_access(ram, p) = "None"}
    IN  IF lacking = {} THEN None ELSE Some(SetMin(lacking))

\* the octet the LOAD_U8 or STORE_U8 at the program counter of s accesses
AccessAt(s) ==
    LET pc == s.program_counter
        fskip == skip(pc, s.bitmask)
        last == IF pc + 1 + fskip > Len(s.code) THEN Len(s.code) ELSE pc + 1 + fskip
        operands == SubSeq(s.code, pc + 2, last)
    IN  [address |-> get_immediate_value(operands, 1, Clamp04(fskip - 1))[2],
         writing |-> s.code[pc + 1] = OPCODE_STORE_U8]

\* C35: a read_octets or write_octets that fails reports PAGE_SIZE times the
\* index of the lowest-numbered page of the range that lacks the required
\* access, page 0 included; a step that ends in Fault leaves that address in
\* exit_arg, and a step that ends in another status leaves exit_arg = 0.
C35_FaultPrecision ==
    [][/\ (/\ lastOp'.op \in {"read_octets", "write_octets"} /\ ~aborted'
           /\ \/ lastOp'.op = "read_octets" /\ ~IsSome(lastOp'.data)
              \/ lastOp'.op = "write_octets" /\ lastOp'.has_fault)
          => LET page == LowestLacking(state.ram, lastOp'.address, lastOp'.length,
                                       lastOp'.op = "write_octets")
             IN  IsSome(page) /\ lastOp'.fault_address = PageBase(Unwrap(page))
       /\ (lastOp'.op = "next_step" /\ ~aborted' /\ ~lastOp'.returned)
          => IF state'.status = "Fault"
             THEN LET page == LowestLacking(state.ram, AccessAt(state).address, 1,
                                            AccessAt(state).writing)
                  IN  IsSome(page) /\ state'.exit_arg = PageBase(Unwrap(page))
             ELSE state'.exit_arg = 0]_vars

-----------------------------------------------------------------------------
(* The value of a request slot on its own: encode_request_timeslots and    *)
(* decode_request_timeslots (codec/impl_.rs) applied to the lists a slot   *)
(* can hold.                                                               *)

\* the most timeslots a request slot holds
MaxTimeslots == 3

\* one-octet and several-octet timeslots, the greatest u32 among them
SlotTimes == {0, 3, 20, 65541, -1}

SlotLists == UNION {[1..n -> SlotTimes] : n \in 0..MaxTimeslots}

\* encode_request_timeslots of a list
EncodeTimeslots(timeslots) ==
    /\ lastOp.op = "none"
    /\ CodecDone([op |-> "encode_request_timeslots", timeslots |-> timeslots,
                  encoded |-> encode_request_timeslots(timeslots)])

\* decode_request_timeslots of what was encoded
DecodeTimeslots ==
    /\ lastOp.op = "encode_request_timeslots"
    /\ CodecDone([op |-> "decode_request_timeslots", timeslots |-> lastOp.timeslots,
                  data |-> lastOp.encoded,
                  decoded |-> decode_request_timeslots(lastOp.encoded)])

NextSlots ==
    \/ \E timeslots \in SlotLists : EncodeTimeslots(timeslots)
    \/ DecodeTimeslots

SpecSlots == Init /\ [][NextSlots]_vars

\* C36: the value of a request slot is the count of its timeslots followed by
\* the timeslots in four octets each, little endian, nothing before an element;
\* decode_request_timeslots of the encoding of a list of 0 to 3 timeslots
\* returns that list.
C36_TimeslotsRoundTrip ==
    /\ lastOp.op = "encode_request_timeslots"
          => lastOp.encoded =
                 encode_natural(Len(lastOp.timeslots))
                     \o Concat([i \in 1..Len(lastOp.timeslots) |->
                                   LeBytes4(lastOp.timeslots[i])])
    /\ lastOp.op = "decode_request_timeslots"
          => lastOp.decoded = Some(lastOp.timeslots)

-----------------------------------------------------------------------------
(* One engine used for one invocation after another: an accumulation is    *)
(* set up and stepped, and the engine is then set up again, reset, or      *)
(* given a blob by prepare_blob or run_blob.                               *)

\* lib.rs reset: reset_state
reset_state(s) == reset_program_state(s)

\* run_blob_impl, where the loop ends within MaxSteps calls of next_step_impl
run_blob_impl(s, program) ==
    IF ~IsSome(program)
    THEN [state |-> [s EXCEPT !.status = "Panic", !.result_code = RESULT_CODE_PANIC],
          returned |-> FALSE, abort |-> FALSE, made |-> 0]
    ELSE n_steps(prepare_blob_impl(s, program), MaxSteps)

\* the accumulations an engine is first used for: one that leaves a yield
\* hash, one that records a transfer, one that adds a provision
FirstInputs ==
    {AccumulateParams(Some(Programs.Yield), Contexts.Rich, 100),
     AccumulateParams(Some(Programs.Transfer), Contexts.Rich, 100),
     AccumulateParams(Some(Programs.Provide), Contexts.Awaited, 100)}

\* the accumulations it is used for next: with a context that decodes, and
\* with one that does not
AgainInputs ==
    {AccumulateParams(Some(Programs.Halt), Contexts.Poor, 100),
     AccumulateParams(Some(Programs.Halt), None, 100)}

\* the blobs it is given next
AgainBlobs == {Some(Programs.UnknownHost), Some(Programs.Empty)}

\* the engine has been stepped
Used == ~aborted /\ lastOp.op \in StepOps

\* setup_accumulate_invocation on an engine that has been used
SetupAgain(params) ==
    /\ Used
    /\ state' = setup_accumulate_from_preimage(state, params)
    /\ lastOp' = SetupRecord(params)
    /\ calls' = 0
    /\ UNCHANGED <<overflow_checks, aborted>>

\* reset on an engine that has been used
ResetAgain ==
    /\ Used
    /\ state' = reset_state(state)
    /\ lastOp' = [op |-> "reset"]
    /\ calls' = 0
    /\ UNCHANGED <<overflow_checks, aborted>>

\* prepare_blob on an engine that has been used
PrepareAgain(program) ==
    /\ Used
    /\ state' = prepare_blob_impl(state, program)
    /\ lastOp' = [op |-> "prepare_blob"]
    /\ calls' = 0
    /\ UNCHANGED <<overflow_checks, aborted>>

\* run_blob on an engine that has been used
RunBlobAgain(program) ==
    LET Ran(run) ==
            /\ ~run.returned
            /\ state' = run.state
            /\ aborted' = run.abort
            /\ lastOp' = [op |-> "run_blob", steps |-> run.made]
            /\ calls' = MaxSteps
            /\ UNCHANGED overflow_checks
    IN  /\ Used
        /\ Ran(run_blob_impl(state, program))

NextReuse ==
    \/ \E params \in FirstInputs : SetupAccumulate(params)
    \/ NextStep
    \/ \E params \in AgainInputs : SetupAgain(params)
    \/ ResetAgain
    \/ \E program \in AgainBlobs : PrepareAgain(program)
    \/ \E program \in AgainBlobs : RunBlobAgain(program)

SpecReuse == Init /\ [][NextReuse]_vars

\* what the claim lists as observable of an invocation, host-call filtering
\* being decided by the accumulation-context flag
Observable(s) ==
    [yield_hash |-> s.yield_hash, checkpoint_requested |-> s.checkpoint_requested,
     pending_xfers |-> s.accumulation_pending_xfers,
     provisions |-> s.accumulation_provisions, accounts |-> s.accumulation_accounts,
     has_accumulation_context |-> s.has_accumulation_context]

\* C37: after a set-up that succeeded the yield hash, the pending checkpoint
\* request, the pending transfers, the provisions, the accounts and the
\* accumulation-context flag are what the same set-up leaves on a fresh
\* engine, whether the context decodes or not; after reset, prepare_blob and
\* run_blob they are those of a fresh engine.
C37_NothingLeftOver ==
    /\ (lastOp.op = "setup_accumulate_invocation" /\ lastOp.returned)
          => Observable(state) =
                 [yield_hash |-> None, checkpoint_requested |-> FALSE,
                  pending_xfers |-> <<>>,
                  provisions |-> IF IsSome(lastOp.context)
                                 THEN Unwrap(lastOp.context).regular.provisions
                                 ELSE <<>>,
                  accounts |-> IF IsSome(lastOp.context)
                               THEN Some(AccountsMap(
                                        Unwrap(lastOp.context).regular.state.accounts))
                               ELSE None,
                  has_accumulation_context |-> TRUE]
    /\ (lastOp.op \in {"reset", "prepare_blob", "run_blob"} /\ ~aborted)
          => Observable(state) =
                 Observable(DefaultPvmState(state.ram.kind))

-----------------------------------------------------------------------------
(* The footprint of an account against what it stores.                     *)

\* the octets a csh key was made of begin with the four octets that
\* create_storage_key and create_preimage_key put there
StorageMark == <<255, 255, 255, 255>>

PreimageMark == <<254, 255, 255, 255>>

\* items and octets as the contents of the account give them: an item and
\* 34 + |key| + |value| octets for a storage entry, two items and 81 + z octets
\* for a request slot, z being the length in the slot's key
FootprintOf(account) ==
    LET keyvals == account.raw_csh_keyvals
        Mark(i) == SubSeq(keyvals[i][1][2], 1, 4)
        storage == {i \in 1..Len(keyvals) : Mark(i) = StorageMark}
        slots == {i \in 1..Len(keyvals) : Mark(i) \notin {StorageMark, PreimageMark}}
        RECURSIVE Octets(_)
        Octets(entries) ==
            IF entries = {} THEN 0
            ELSE LET i == SetMin(entries)
                 IN  (IF i \in storage
                      THEN 34 + (Len(keyvals[i][1][2]) - 4) + Len(keyvals[i][2])
                      ELSE 81 + FromLeBytes4(Mark(i)))
                         + Octets(entries \ {i})
    IN  [items |-> Cardinality(storage) + 2 * Cardinality(slots),
         octets |-> U64(Octets(storage \cup slots))]

Matches(account) ==
    /\ account.items = FootprintOf(account).items
    /\ account.octets = FootprintOf(account).octets

\* the WRITE, SOLICIT or FORGET the step dispatched did what was asked
Succeeded(host, answer) ==
    IF host = FUNC_WRITE THEN answer = REG_NONE \/ answer[1] = 0
    ELSE answer = REG_OK

\* C38: when the caller's items and octets match what the account stores, they
\* match it again after a WRITE, SOLICIT or FORGET that succeeded: items is the
\* number of storage keys plus twice the number of request slots, octets the
\* sum of 34 + |key| + |value| over the storage entries and of 81 + z over the
\* request slots.
C38_Footprint ==
    [][(/\ lastOp'.op = "next_step" /\ ~aborted'
        /\ lastOp'.host \in {FUNC_WRITE, FUNC_SOLICIT, FUNC_FORGET}
        /\ Dispatches(state, lastOp'.host)
        /\ CallerKnown(state)
        /\ Matches(Unwrap(state.accumulation_accounts)[
                       Unwrap(state.accumulation_service_id)])
        /\ Succeeded(lastOp'.host, state'.registers[8]))
          => Matches(Unwrap(state'.accumulation_accounts)[
                         Unwrap(state.accumulation_service_id)])]_vars

-----------------------------------------------------------------------------
(* The loop of run_program, `while next_step_impl(state) {}`, one round an *)
(* action, on programs that never leave a loop of their own accord.        *)

\* more rounds than the greatest gas limit plus one
MaxRunSteps == 14

\* the gas limits of the runs
RunGas == {0, 3, 12}

\* FALLTHROUGH and a jump back to it; a host call, of an id in no registry
\* and of GAS, and a jump back to it; FALLTHROUGH and a branch on r2 = 0 back
\* to it
LoopPrograms ==
    [JumpLoop |-> Program(<<<<OPCODE_FALLTHROUGH>>, <<OPCODE_JUMP, 255>>>>),
     UnknownLoop |-> Program(<<Ecalli(27), <<OPCODE_JUMP, 254>>>>),
     KnownLoop |-> Program(<<Ecalli(FUNC_GAS), <<OPCODE_JUMP, 254>>>>),
     BranchLoop |->
         Program(<<<<OPCODE_FALLTHROUGH>>, <<OPCODE_BRANCH_EQ_IMM, 18, 0, 255>>>>),
     SelfBranch |-> Programs.SelfBranch,
     SelfJump |-> Programs.SelfJump,
     Halt |-> Programs.Halt]

LoopInputs ==
    {AccumulateParams(Some(LoopPrograms[p]), Contexts.Rich, gas) :
         p \in DOMAIN LoopPrograms, gas \in RunGas}

\* run_program has been called and its loop has not ended
Running ==
    /\ ~aborted
    /\ \/ lastOp.op = "setup_accumulate_invocation" /\ lastOp.returned
       \/ lastOp.op = "set_gas_left"
       \/ lastOp.op = "run_program" /\ lastOp.returned

\* one round of the loop of run_program; `limit` is the gas the run began with
RunStep ==
    LET Ran(result) ==
            /\ state' = result.state
            /\ aborted' = result.abort
            /\ lastOp' = [op |-> "run_program", returned |-> result.returned,
                          limit |-> IF lastOp.op = "run_program" THEN lastOp.limit
                                    ELSE state.gas_left,
                          host |-> HostCallAt(state)]
            /\ calls' = calls + 1
            /\ UNCHANGED overflow_checks
    IN  /\ Running /\ calls < MaxRunSteps
        /\ Translated(state)
        /\ Ran(next_step_impl(state))

NextLoop ==
    \/ \E program \in {Some(LoopPrograms[p]) : p \in DOMAIN LoopPrograms} :
           PrepareBlob(program)
    \/ \E gas \in RunGas : SetGasLeft(U64(gas))
    \/ \E params \in LoopInputs : SetupAccumulate(params)
    \/ RunStep

\* the loop of run_program makes a round: the steps of RunStep, told by the
\* count of the calls
RunRound ==
    /\ Running /\ calls < MaxRunSteps
    /\ Translated(state)
    /\ calls' = calls + 1

\* run_program, once called, goes through its loop without pause: nothing but
\* the loop runs between the call and its return
SpecLoop == Init /\ [][NextLoop]_vars /\ WF_calls(RunRound)

\* the loop of run_program has ended with a terminal status
Ended ==
    /\ lastOp.op = "run_program" /\ ~lastOp.returned
    /\ state.status \in TerminalStatuses

\* C39: run_program on a program set up with the gas limit G makes at most
\* G + 1 calls of next_step_impl, and its loop ends, with the status Halt,
\* Panic, Fault or Oog.
C39_Terminates ==
    /\ [](lastOp.op = "run_program" => calls <= lastOp.limit + 1)
    /\ (Running ~> Ended)

\* a program that jumps back for ever has used up its gas of 12 in 13 rounds
C39_Witness ==
    /\ Ended /\ state.status = "Oog" /\ lastOp.limit = 12 /\ calls = 13

\* C40: a step that ends in Panic leaves the 13 registers as they were:
\* LOAD_IMM_JUMP and LOAD_IMM_JUMP_IND whose target is rejected do not write
\* their immediate to reg_A, and a host call that panics writes no register.
C40_PanicKeepsRegisters ==
    [][(/\ lastOp'.op = "next_step" /\ ~aborted' /\ ~lastOp'.returned
        /\ state'.status = "Panic")
          => state'.registers = state.registers]_vars

=============================================================================
